---- MODULE Spec2Model ----
(***************************************************************************)
(* A model of hsalf/swf.py: the bit reader and writer, required_bits, the  *)
(* tag framing, the tag iterator, the reserved-bit decoders, the Screen    *)
(* Video packet codec and SwfFile.save / iter_body.                        *)
(*                                                                         *)
(* Bytes are integers 0..255, byte strings are sequences of bytes, and a   *)
(* string of '0'/'1' characters is a sequence over {0, 1}; the character   *)
(* '-' that Python's format puts before a negative number is Minus.        *)
(***************************************************************************)
EXTENDS Integers, Sequences, FiniteSets, TLC

VARIABLES
    \* BitWriter / BitReader (swf.py 62-219)
    buffer,      \* BitWriter.buffer: the list of bit strings written so far
    fio,         \* the wrapped file: bytes the writer emitted, the reader's source
    backlog,     \* BitReader.backlog
    fpos,        \* position of the reader's source
    wlog,        \* the writes since construction: [w, v, sign]
    rlog,        \* the reads, in order: [w, sign, ok, v, err]
    bphase,      \* "idle" | "write" | "read"
    \* BitWriter.required_bits (swf.py 179-202)
    numbers,     \* the argument list of the last call
    nbits,       \* what the last call returned
    prev_nbits,  \* what the call before it returned
    \* Tag.serialize / Tag.deserialize on one UnknownTag (swf.py 604-695)
    tag,         \* the tag object: [tag_code, tag_length, data]
    tag_out,     \* the bytes serialize wrote
    tag_in,      \* the source deserialize reads: tag_out and what follows it
    tag_dec,     \* the outcome of deserialize: [ok, err, tag, pos]
    tphase,      \* "idle" | "new" | "serialized" | "decoded"
    \* SwfFile.iter_body (swf.py 1541-1555)
    file,        \* the bytes of self.file
    cur,         \* the position of self.file
    last_tag,    \* last_tag: <<>> for None, else <<tag>>
    yielded,     \* the tags yielded so far: [tag, from, to]
    istate,      \* "idle" | "running" | "stopped" | "raised"
    ierr,        \* the class of the exception that left the iteration
    \* one deserialize of a structure with reserved bits
    rec_kind,    \* the class whose deserialize is called
    rec_in,      \* the bytes of the file it reads
    rec_out,     \* the outcome: [ok, err, pos]
    rphase,      \* "idle" | "new" | "decoded"
    \* one Screen Video stream, encoded frame by frame and played back
    images,         \* the source images of the frames encoded so far
    previous_frame, \* the encoder's packet of the frame before: <<>> or <<p>>
    sv_packet,      \* the encoder's packet of the last frame: <<>> or <<p>>
    video_data,     \* the bytes sv_packet serialized to
    svp,            \* the packet deserialized from video_data: <<>> or <<p>>
    last_img,       \* the player's canvas: <<>> or <<image>>
    shown,          \* the canvas as it was after each frame
    vphase,         \* "idle" | "start" | "sized" | "prepared" | "encoded" | "serialized" | "decoded"
                    \* | "painted" | "failed"
    verr,           \* the class of the exception that ended the stream
    \* one SwfFile saved, loaded and saved again (swf.py 1500-1592)
    swf,         \* the SwfFile that is saved first: [header, body]
    saved,       \* the bytes of the file its save wrote
    loaded,      \* the SwfFile that loaded them: <<>> or <<[header, body]>>
    resaved,     \* the bytes of the file the save of `loaded` wrote
    fphase,      \* "idle" | "new" | "saved" | "loaded" | "resaved" | "failed"
    ferr,        \* the class of the exception that ended the sequence
    \* one record object (Matrix, ColorTransform, ColorTransformWithAlpha)
    robj,        \* the object's attributes: <<>> before it exists, else <<o>>
    wire,        \* the bytes the object is deserialized from
    sers,        \* the outcome of each serialize of the object, in order
    ophase       \* "idle" | "new" | "decoded" | "made"

bitVars == <<buffer, fio, backlog, fpos, wlog, rlog, bphase>>
reqVars == <<numbers, nbits, prev_nbits>>
tagVars == <<tag, tag_out, tag_in, tag_dec, tphase>>
iterVars == <<file, cur, last_tag, yielded, istate, ierr>>
recVars == <<rec_kind, rec_in, rec_out, rphase>>
vidVars == <<images, previous_frame, sv_packet, video_data, svp, last_img, shown,
             vphase, verr>>
fileVars == <<swf, saved, loaded, resaved, fphase, ferr>>
objVars == <<robj, wire, sers, ophase>>
vars == <<bitVars, reqVars, tagVars, iterVars, recVars, vidVars, fileVars, objVars>>

\* what the actions of one component leave alone
notBits == <<reqVars, tagVars, iterVars, recVars, vidVars, fileVars, objVars>>
notReq == <<bitVars, tagVars, iterVars, recVars, vidVars, fileVars, objVars>>
notTag == <<bitVars, reqVars, iterVars, recVars, vidVars, fileVars, objVars>>
notIter == <<bitVars, reqVars, tagVars, recVars, vidVars, fileVars, objVars>>
notRec == <<bitVars, reqVars, tagVars, iterVars, vidVars, fileVars, objVars>>
notVid == <<bitVars, reqVars, tagVars, iterVars, recVars, fileVars, objVars>>
notFile == <<bitVars, reqVars, tagVars, iterVars, recVars, vidVars, objVars>>
notObj == <<bitVars, reqVars, tagVars, iterVars, recVars, vidVars, fileVars>>

-----------------------------------------------------------------------------
(* Bounds of the model *)

MaxWidth == 5
MaxWrites == 2
MaxNum == 5
MaxArgs == 3
MaxPayload == 64
MaxTags == 2
\* Screen Video: the longest side of an image, and the frames of a stream
MaxSide == 17
MaxFrames == 3
\* the reads made of one BitReader
MaxReads == 3
\* the calls (write or flush) made of one BitWriter
MaxCalls == 4

\* the serialize calls made of one color transform
MaxSaves == 3

-----------------------------------------------------------------------------
(* Helpers: Python's int formatting and parsing *)

Minus == 2

\* A local variable of the code: f is [x \in {v} |-> e], and Bind(f) is e
\* with v for x.
Bind(f) == f[CHOOSE x \in DOMAIN f : TRUE]

Pow2(n) == 2 ^ n

RECURSIVE BinDigits(_)
\* '{0:b}'.format(n) for n >= 0
BinDigits(n) == IF n < 2 THEN <<n>> ELSE BinDigits(n \div 2) \o <<n % 2>>

Zeros(n) == [i \in 1..n |-> 0]

RECURSIVE BinDigitsNeg(_)
\* the digits of -n for n < 0, computed without negating n
BinDigitsNeg(n) ==
    IF n = -1 THEN <<1>> ELSE BinDigitsNeg((n + (n % 2)) \div 2) \o <<n % 2>>

\* the digits of abs(n)
AbsDigits(n) == IF n < 0 THEN BinDigitsNeg(n) ELSE BinDigits(n)

\* (-2) ** 31
MinInt32 == (-2147483647) - 1

\* '{0:b}'.format(n): a '-' and the digits of -n when n < 0
FormatB(n) == IF n < 0 THEN <<Minus>> \o AbsDigits(n) ELSE BinDigits(n)

\* '{0:0<w>b}'.format(n): zero padding after the sign up to a total width of w
FormatBW(w, n) ==
    Bind([d \in {AbsDigits(n)} |->
    Bind([used \in {Len(d) + (IF n < 0 THEN 1 ELSE 0)} |->
        (IF n < 0 THEN <<Minus>> ELSE <<>>)
            \o Zeros(IF used < w THEN w - used ELSE 0) \o d])])

RECURSIVE BitsToInt(_)
\* int(s, 2) for a non-empty string of binary digits
BitsToInt(s) ==
    IF Len(s) = 0 THEN 0
    ELSE 2 * BitsToInt(SubSeq(s, 1, Len(s) - 1)) + s[Len(s)]

RECURSIVE Flatten(_)
\* b''.join(list)
Flatten(ss) == IF Len(ss) = 0 THEN <<>> ELSE Head(ss) \o Flatten(Tail(ss))

\* s[a : b] of Python, 0-based, clipped to the string
Slice(s, a, b) ==
    LET hi == IF b > Len(s) THEN Len(s) ELSE b
    IN IF a >= hi THEN <<>> ELSE SubSeq(s, a + 1, hi)

\* '{0:08b}'.format(ord(x))
ByteBits(x) == FormatBW(8, x)

-----------------------------------------------------------------------------
(* ensure_read, swf.py 44-59 *)

\* an ensure_read that returns whatever f.read(length) returned
ReadWhatIsThere(src, pos, length) ==
    Bind([s \in {Slice(src, pos, pos + length)} |->
        [ok |-> TRUE, err |-> "", s |-> s, pos |-> pos + Len(s)]])

\* The outcome of ensure_read(f, length) on source src at position pos.
ensure_read(src, pos, length) ==
    Bind([s \in {Slice(src, pos, pos + length)} |->
        IF Len(s) # length
        THEN [ok |-> FALSE, err |-> "IoSwfException", s |-> <<>>, pos |-> pos + Len(s)]
        ELSE [ok |-> TRUE, err |-> "", s |-> s, pos |-> pos + length]])

-----------------------------------------------------------------------------
(* BitReader, swf.py 62-135 *)

\* a read that returns its value and leaves the bits read in the backlog
BitTakeKeepsBits(bl, pos, length, sign) ==
    Bind([digits \in {Slice(bl, IF sign THEN 1 ELSE 0, length)} |->
        IF Len(digits) = 0
        THEN [ok |-> FALSE, err |-> "ValueError", v |-> 0, backlog |-> bl, pos |-> pos]
        ELSE [ok |-> TRUE, err |-> "",
              v |-> IF sign /\ bl[1] = 1
                    THEN -(Pow2(length - 1) - BitsToInt(digits))
                    ELSE BitsToInt(digits),
              backlog |-> bl, pos |-> pos]])

\* The end of BitReader.read(length, sign) once the backlog bl holds enough
\* bits: int(..., 2) of the first `length` characters (without the first one
\* when signed), which then leave the backlog.
BitTake(bl, pos, length, sign) ==
    Bind([digits \in {Slice(bl, IF sign THEN 1 ELSE 0, length)} |->
        IF Len(digits) = 0
        THEN \* int('', 2)
             [ok |-> FALSE, err |-> "ValueError", v |-> 0, backlog |-> bl, pos |-> pos]
        ELSE [ok |-> TRUE, err |-> "",
              v |-> IF sign /\ bl[1] = 1
                    THEN -(Pow2(length - 1) - BitsToInt(digits))
                    ELSE BitsToInt(digits),
              backlog |-> Slice(bl, length, Len(bl)), pos |-> pos]])

\* BitReader.read(length, sign) on a reader with backlog bl over source src
\* at position pos: the value returned or the exception raised, and the
\* reader afterwards.
BitRead(src, pos, bl, length, sign) ==
    IF Len(bl) < length
    THEN Bind([got \in {ensure_read(src, pos, (7 + length - Len(bl)) \div 8)} |->
            IF ~got.ok
            THEN [ok |-> FALSE, err |-> "IoSwfException", v |-> 0,
                  backlog |-> bl, pos |-> got.pos]
            ELSE BitTake(bl \o Flatten([i \in 1..Len(got.s) |-> ByteBits(got.s[i])]),
                         got.pos, length, sign)])
    ELSE BitTake(bl, pos, length, sign)

\* a sign_read that passes any width on to read
SignReadAnyWidth(src, pos, bl, length) == BitRead(src, pos, bl, length, TRUE)

\* BitReader.sign_read(length)
sign_read(src, pos, bl, length) ==
    IF length < 2
    THEN [ok |-> FALSE, err |-> "ValueError", v |-> 0, backlog |-> bl, pos |-> pos]
    ELSE BitRead(src, pos, bl, length, TRUE)

\* BitReader.unsign_read(length)
unsign_read(src, pos, bl, length) == BitRead(src, pos, bl, length, FALSE)

-----------------------------------------------------------------------------
(* BitWriter, swf.py 138-219 *)

\* write without the two's-complement wrap of a negative number
BitWriteNoWrap(bits, number) ==
    FormatBW(bits, IF number < 0 THEN -number ELSE number)

\* BitWriter.write(bits, number): the string appended to the buffer
BitWrite(bits, number) ==
    LET n == IF number < 0 THEN Pow2(bits) + number ELSE number
    IN FormatBW(bits, n)

\* a flush that writes the complete bytes of the buffer only, without padding
FlushWholeBytes(buf) ==
    Bind([data \in {Flatten(buf)} |->
        [i \in 1..(Len(data) \div 8) |-> BitsToInt(SubSeq(data, 8 * (i - 1) + 1, 8 * i))]])

\* The bytes BitWriter.flush writes for a buffer; flush of an empty buffer
\* writes nothing.  (int(chunk, 2) of the 8-character chunks.)
FlushBytes(buf) ==
    Bind([data \in {Flatten(buf)} |->
    Bind([padded \in {IF Len(data) % 8 # 0 THEN data \o Zeros(8 - (Len(data) % 8)) ELSE data} |->
        [i \in 1..(Len(padded) \div 8) |->
            BitsToInt(SubSeq(padded, 8 * (i - 1) + 1, 8 * i))]])])

\* required_bits without the "minus 1" for a negative number
RequiredBitsNoAdjust(nums) ==
    LET Norm(v) == IF v < 0 THEN -v ELSE v
        RECURSIVE Fold(_, _)
        Fold(i, mx) == IF i > Len(nums) THEN mx
                       ELSE Fold(i + 1, IF mx < Norm(nums[i]) THEN Norm(nums[i]) ELSE mx)
    IN Len(FormatB(Fold(1, MinInt32))) + 1

\* BitWriter.required_bits(*numbers)
required_bits(nums) ==
    LET Norm(v) == IF v < 0 THEN -v - 1 ELSE v
        RECURSIVE Fold(_, _)
        Fold(i, mx) == IF i > Len(nums) THEN mx
                       ELSE Fold(i + 1, IF mx < Norm(nums[i]) THEN Norm(nums[i]) ELSE mx)
    IN Len(FormatB(Fold(1, MinInt32))) + 1

-----------------------------------------------------------------------------
(* struct.pack / struct.unpack and file reads *)

\* f.read(n) on source src at position pos: up to n bytes
FileRead(src, pos, n) ==
    Bind([s \in {Slice(src, pos, pos + n)} |-> [s |-> s, pos |-> pos + Len(s)]])

\* struct.pack('<H', v), struct.pack('<I', v)
PackH(v) == <<v % 256, (v \div 256) % 256>>
PackI(v) == <<v % 256, (v \div 256) % 256, (v \div 65536) % 256,
              (v \div 16777216) % 256>>

\* struct.unpack('<H', s)[0], struct.unpack('<I', s)[0] for s of the right length
UnpackH(s) == s[1] + 256 * s[2]
UnpackI(s) == s[1] + 256 * s[2] + 65536 * s[3] + 16777216 * s[4]

-----------------------------------------------------------------------------
(* Tag, swf.py 604-682, and UnknownTag, swf.py 685-695 *)

\* Tag(): code 0, length 0 (no payload of its own)
NoTag == [tag_code |-> 0, tag_length |-> 0, data |-> <<>>]

\* a header read that takes the 6-bit field as the length even when it is 63
TagHeaderReadNoExtended(src, pos) ==
    Bind([h \in {FileRead(src, pos, 2)} |->
        IF Len(h.s) # 2
        THEN [ok |-> FALSE, err |-> "struct.error", tag_code |-> 0,
              tag_length |-> 0, pos |-> h.pos]
        ELSE [ok |-> TRUE, err |-> "", tag_code |-> UnpackH(h.s) \div 64,
              tag_length |-> UnpackH(h.s) % 64, pos |-> h.pos]])

\* The reading of tag_code and tag_length in Tag.deserialize (tag=True):
\* struct.unpack raises struct.error when f.read returns too few bytes.
TagHeaderRead(src, pos) ==
    Bind([h \in {FileRead(src, pos, 2)} |->
        IF Len(h.s) # 2
        THEN [ok |-> FALSE, err |-> "struct.error", tag_code |-> 0,
              tag_length |-> 0, pos |-> h.pos]
        ELSE Bind([code_and_length \in {UnpackH(h.s)} |->
            IF code_and_length % 64 >= 63
            THEN Bind([x \in {FileRead(src, h.pos, 4)} |->
                    IF Len(x.s) # 4
                    THEN [ok |-> FALSE, err |-> "struct.error",
                          tag_code |-> code_and_length \div 64,
                          tag_length |-> code_and_length % 64, pos |-> x.pos]
                    ELSE [ok |-> TRUE, err |-> "",
                          tag_code |-> code_and_length \div 64,
                          tag_length |-> UnpackI(x.s), pos |-> x.pos]])
            ELSE [ok |-> TRUE, err |-> "", tag_code |-> code_and_length \div 64,
                  tag_length |-> code_and_length % 64, pos |-> h.pos]])])

\* a header that keeps the short form for a payload of 63 bytes
TagHeaderShortUpTo63(tag_code, length) ==
    IF length <= 63
    THEN PackH(tag_code * 64 + length)
    ELSE PackH(tag_code * 64 + 63) \o PackI(length)

\* The header Tag.serialize writes before a payload of `length` bytes
TagHeader(tag_code, length) ==
    IF length < 63
    THEN PackH(tag_code * 64 + length)
    ELSE PackH(tag_code * 64 + 63) \o PackI(length)

\* Tag.serialize(f) (tag=True) of a tag whose _serialize writes `data`:
\* the bytes written and the tag_length the tag holds afterwards.
TagSerialize(tag_code, data) ==
    [bytes |-> TagHeader(tag_code, Len(data)) \o data, tag_length |-> Len(data)]

\* UnknownTag._deserialize
UnknownTagBody(src, pos, t) ==
    Bind([got \in {ensure_read(src, pos, t.tag_length)} |->
        [ok |-> got.ok, err |-> got.err,
         tag |-> [tag_code |-> t.tag_code, tag_length |-> t.tag_length,
                  data |-> got.s],
         pos |-> got.pos]])

\* UnknownTag().deserialize(f) (tag=True)
UnknownTagDeserialize(src, pos) ==
    Bind([h \in {TagHeaderRead(src, pos)} |->
        IF ~h.ok
        THEN [ok |-> FALSE, err |-> h.err, tag |-> NoTag, pos |-> h.pos]
        ELSE UnknownTagBody(src, h.pos, h)])

-----------------------------------------------------------------------------
(* Reading a run of bit fields and byte fields from one file               *)

\* A decoder's progress: [ok, err, pos, bl, vals]: the file position, the
\* BitReader's backlog and the values read so far; after an exception ok is
\* FALSE and err names the exception class.
Start(pos) == [ok |-> TRUE, err |-> "", pos |-> pos, bl |-> <<>>, vals |-> <<>>]

Raise(st, e) == [st EXCEPT !.ok = FALSE, !.err = e]

RECURSIVE ReadFields(_, _, _)
\* br.unsign_read / br.sign_read for each <<width, signed>> of fields, in
\* order, on one BitReader; the first exception ends the run.
ReadFields(src, st, fields) ==
    IF ~st.ok \/ Len(fields) = 0 THEN st
    ELSE Bind([r \in {IF Head(fields)[2]
              THEN sign_read(src, st.pos, st.bl, Head(fields)[1])
              ELSE unsign_read(src, st.pos, st.bl, Head(fields)[1])} |->
            ReadFields(src,
                       [ok |-> r.ok, err |-> r.err, pos |-> r.pos, bl |-> r.backlog,
                        vals |-> IF r.ok THEN Append(st.vals, r.v) ELSE st.vals],
                       Tail(fields))])

Unsigned(w) == <<w, FALSE>>
Signed(w) == <<w, TRUE>>
Times(n, f) == [i \in 1..n |-> f]

\* struct.unpack('<H', f.read(2)): appends the value, or raises struct.error
ReadH(src, st) ==
    IF ~st.ok THEN st
    ELSE Bind([r \in {FileRead(src, st.pos, 2)} |->
            IF Len(r.s) # 2 THEN [Raise(st, "struct.error") EXCEPT !.pos = r.pos]
            ELSE [st EXCEPT !.pos = r.pos, !.vals = Append(st.vals, UnpackH(r.s))]])

\* struct.unpack('<h', f.read(2))
ReadSignedH(src, st) ==
    IF ~st.ok THEN st
    ELSE Bind([r \in {FileRead(src, st.pos, 2)} |->
            IF Len(r.s) # 2 THEN [Raise(st, "struct.error") EXCEPT !.pos = r.pos]
            ELSE [st EXCEPT !.pos = r.pos,
                            !.vals = Append(st.vals,
                                            IF UnpackH(r.s) >= 32768
                                            THEN UnpackH(r.s) - 65536
                                            ELSE UnpackH(r.s))]])

\* struct.pack('<h', v)
PackSignedH(v) == PackH(IF v < 0 THEN v + 65536 ELSE v)

\* struct.unpack('<BBB', f.read(3)) and the like: n single bytes
ReadB(src, st, n) ==
    IF ~st.ok THEN st
    ELSE Bind([r \in {FileRead(src, st.pos, n)} |->
            IF Len(r.s) # n THEN [Raise(st, "struct.error") EXCEPT !.pos = r.pos]
            ELSE [st EXCEPT !.pos = r.pos, !.vals = st.vals \o r.s]])

\* A new BitReader on the same file: the old reader's backlog is dropped.
NewReader(st) == [st EXCEPT !.bl = <<>>]

\* The outcome of a deserialize: the object, or the exception.
Done(st, obj) == [ok |-> st.ok, err |-> st.err, pos |-> st.pos, obj |-> obj]

NoObj == [kind |-> "none"]

\* The outcome of a serialize: the bytes written, or the exception.
Wrote(bytes) == [ok |-> TRUE, err |-> "", bytes |-> bytes]
Failed(e) == [ok |-> FALSE, err |-> e, bytes |-> <<>>]

-----------------------------------------------------------------------------
(* Rect, swf.py 332-363; FrameHeader, swf.py 555-580 *)

\* Rect.deserialize
RectDeserialize(src, pos) ==
    Bind([a \in {ReadFields(src, Start(pos), <<Unsigned(5)>>)} |->
    Bind([b \in {IF a.ok THEN ReadFields(src, a, Times(4, Signed(a.vals[1]))) ELSE a} |->
        Done(b, IF b.ok THEN [kind |-> "Rect", x_min |-> b.vals[2], x_max |-> b.vals[3],
                              y_min |-> b.vals[4], y_max |-> b.vals[5]]
                        ELSE NoObj)])])

\* Rect.serialize
RectSerialize(r) ==
    Bind([n \in {required_bits(<<r.x_min, r.x_max, r.y_min, r.y_max>>)} |->
        Wrote(FlushBytes(<<BitWrite(5, n), BitWrite(n, r.x_min), BitWrite(n, r.x_max),
                           BitWrite(n, r.y_min), BitWrite(n, r.y_max)>>))])

\* FrameHeader.deserialize
FrameHeaderDeserialize(src, pos) ==
    Bind([size \in {RectDeserialize(src, pos)} |->
        IF ~size.ok THEN size
        ELSE Bind([st \in {ReadH(src, ReadH(src, Start(size.pos)))} |->
            Done(st, IF st.ok
                     THEN [kind |-> "FrameHeader", frame_size |-> size.obj,
                           frame_rate |-> st.vals[1], frame_count |-> st.vals[2]]
                     ELSE NoObj)])])

\* FrameHeader.serialize
FrameHeaderSerialize(h) ==
    Wrote(RectSerialize(h.frame_size).bytes \o PackH(h.frame_rate) \o PackH(h.frame_count))

-----------------------------------------------------------------------------
(* Matrix, swf.py 366-419 *)

\* A number held by a Matrix: an int, or the float n / 65536.0
IntNum(n) == [float |-> FALSE, n |-> n]
FloatNum(n) == [float |-> TRUE, n |-> n]

\* The reading of scale or of rotate in Matrix.deserialize on the reader st:
\* the flag and, when it is set, the 5-bit width and the two signed numbers;
\* vals is <<>> for an absent pair, <<x, y>> for a present one.
MatrixPairRead(src, st) ==
    Bind([a \in {ReadFields(src, [st EXCEPT !.vals = <<>>], <<Unsigned(1)>>)} |->
        IF ~a.ok \/ a.vals[1] = 0 THEN [a EXCEPT !.vals = <<>>]
        ELSE Bind([b \in {ReadFields(src, [a EXCEPT !.vals = <<>>], <<Unsigned(5)>>)} |->
            IF ~b.ok THEN b
            ELSE ReadFields(src, [b EXCEPT !.vals = <<>>],
                            Times(2, Signed(b.vals[1])))])])

\* [x / 65536.0, y / 65536.0], or None
FloatPair(v) == IF Len(v) = 0 THEN <<>> ELSE << <<FloatNum(v[1]), FloatNum(v[2])>> >>

\* Matrix.deserialize: scale and rotate are stored divided by 65536.0
MatrixDeserialize(src, pos) ==
    Bind([sc \in {MatrixPairRead(src, Start(pos))} |->
    Bind([ro \in {MatrixPairRead(src, sc)} |->
    Bind([h \in {ReadFields(src, [ro EXCEPT !.vals = <<>>], <<Unsigned(5)>>)} |->
    Bind([k \in {IF h.ok /\ h.vals[1] > 0
         THEN ReadFields(src, h, Times(2, Signed(h.vals[1]))) ELSE h} |->
        Done(k, IF k.ok
                THEN [kind |-> "Matrix", scale |-> FloatPair(sc.vals),
                      rotate |-> FloatPair(ro.vals),
                      translate |-> IF Len(k.vals) = 3 THEN <<k.vals[2], k.vals[3]>>
                                    ELSE <<0, 0>>]
                ELSE NoObj)])])])])

\* The bits Matrix.serialize writes for a scale or rotate pair; required_bits
\* formats '{0:b}' and raises ValueError on a float.
PairBits(p) ==
    IF Len(p) = 0 THEN Wrote(<<BitWrite(1, 0)>>)
    ELSE IF p[1][1].float \/ p[1][2].float THEN Failed("ValueError")
    ELSE Bind([n \in {required_bits(<<p[1][1].n, p[1][2].n>>)} |->
            Wrote(<<BitWrite(1, 1), BitWrite(5, n), BitWrite(n, p[1][1].n),
                    BitWrite(n, p[1][2].n)>>)])

\* Matrix.serialize
MatrixSerialize(m) ==
    Bind([sc \in {PairBits(m.scale)} |->
        IF ~sc.ok THEN sc
        ELSE Bind([ro \in {PairBits(m.rotate)} |->
            IF ~ro.ok THEN ro
            ELSE Bind([n \in {required_bits(m.translate)} |->
                Wrote(FlushBytes(
                    sc.bytes \o ro.bytes
                        \o (IF m.translate = <<0, 0>> THEN <<BitWrite(5, 0)>>
                            ELSE <<BitWrite(5, n), BitWrite(n, m.translate[1]),
                                   BitWrite(n, m.translate[2])>>)))])])])

-----------------------------------------------------------------------------
(* ColorTransformWithAlpha, swf.py 467-511 *)

\* ColorTransformWithAlpha.deserialize
ColorTransformWithAlphaDeserialize(src, pos) ==
    Bind([a \in {ReadFields(src, Start(pos), <<Unsigned(1), Unsigned(1), Unsigned(4)>>)} |->
    Bind([b \in {IF a.ok /\ a.vals[2] # 0
         THEN ReadFields(src, [a EXCEPT !.vals = <<>>], Times(4, Signed(a.vals[3])))
         ELSE [a EXCEPT !.vals = <<>>]} |->
    Bind([c \in {IF a.ok /\ a.vals[1] # 0
         THEN ReadFields(src, [b EXCEPT !.vals = <<>>], Times(4, Signed(a.vals[3])))
         ELSE [b EXCEPT !.vals = <<>>]} |->
        Done(c, IF c.ok
                THEN [kind |-> "ColorTransformWithAlpha",
                      mult_term |-> IF a.vals[2] # 0 THEN <<b.vals>> ELSE <<>>,
                      add_term |-> IF a.vals[1] # 0 THEN <<c.vals>> ELSE <<>>]
                ELSE NoObj)])])])

\* ColorTransformWithAlpha.serialize: the bytes written (the BitWriter is
\* flushed by __del__ when serialize returns) and the object afterwards:
\* `numbers` is add_term itself when add_term is set, so extend() appends
\* mult_term to it.
ColorTransformWithAlphaSerialize(ct) ==
    Bind([nums \in {(IF Len(ct.add_term) > 0 THEN ct.add_term[1] ELSE <<>>)
            \o (IF Len(ct.mult_term) > 0 THEN ct.mult_term[1] ELSE <<>>)} |->
    Bind([n \in {required_bits(nums)} |->
        [ok |-> TRUE, err |-> "",
         bytes |-> FlushBytes(
            <<BitWrite(1, IF Len(ct.add_term) > 0 THEN 1 ELSE 0),
              BitWrite(1, IF Len(ct.mult_term) > 0 THEN 1 ELSE 0),
              BitWrite(4, n)>>
            \o (IF Len(ct.mult_term) > 0
                THEN [i \in 1..4 |-> BitWrite(n, ct.mult_term[1][i])] ELSE <<>>)
            \o (IF Len(ct.add_term) > 0
                THEN [i \in 1..4 |-> BitWrite(n, nums[i])] ELSE <<>>)),
         obj |-> [ct EXCEPT !.add_term = IF Len(ct.add_term) > 0 THEN <<nums>>
                                         ELSE <<>>]]])])

-----------------------------------------------------------------------------
(* ColorTransform, swf.py 422-464 *)

\* ColorTransform.serialize: as ColorTransformWithAlpha.serialize, with the
\* three terms of red, green and blue
ColorTransformSerialize(ct) ==
    Bind([nums \in {(IF Len(ct.add_term) > 0 THEN ct.add_term[1] ELSE <<>>)
            \o (IF Len(ct.mult_term) > 0 THEN ct.mult_term[1] ELSE <<>>)} |->
    Bind([n \in {required_bits(nums)} |->
        [ok |-> TRUE, err |-> "",
         bytes |-> FlushBytes(
            <<BitWrite(1, IF Len(ct.add_term) > 0 THEN 1 ELSE 0),
              BitWrite(1, IF Len(ct.mult_term) > 0 THEN 1 ELSE 0),
              BitWrite(4, n)>>
            \o (IF Len(ct.mult_term) > 0
                THEN [i \in 1..3 |-> BitWrite(n, ct.mult_term[1][i])] ELSE <<>>)
            \o (IF Len(ct.add_term) > 0
                THEN [i \in 1..3 |-> BitWrite(n, nums[i])] ELSE <<>>)),
         obj |-> [ct EXCEPT !.add_term = IF Len(ct.add_term) > 0 THEN <<nums>>
                                         ELSE <<>>]]])])

-----------------------------------------------------------------------------
(* String, swf.py 273-295 *)

RECURSIVE StringScan(_, _, _)
\* String.deserialize: ensure_read(f, 1) until the NUL; the model's names are
\* ASCII, which utf-8 decodes and encodes unchanged.
StringScan(src, pos, acc) ==
    Bind([c \in {ensure_read(src, pos, 1)} |->
        IF ~c.ok THEN [ok |-> FALSE, err |-> c.err, pos |-> c.pos, obj |-> NoObj]
        ELSE IF c.s[1] = 0
        THEN [ok |-> TRUE, err |-> "", pos |-> c.pos,
              obj |-> [kind |-> "String", value |-> acc]]
        ELSE StringScan(src, c.pos, Append(acc, c.s[1]))])

StringDeserialize(src, pos) == StringScan(src, pos, <<>>)

\* String.serialize
StringSerialize(str) == Wrote(str.value \o <<0>>)

-----------------------------------------------------------------------------
(* ClipEventFlags, swf.py 717-793; ClipActions, swf.py 870-905 *)

\* ClipEventFlags.deserialize
ClipEventFlagsDeserialize(src, pos) ==
    Bind([a \in {ReadFields(src, Start(pos), Times(16, Unsigned(1)) \o <<Unsigned(5)>>)} |->
    Bind([b \in {IF a.ok /\ a.vals[17] # 0 THEN Raise(a, "CorruptedSwfException")
         ELSE ReadFields(src, a, Times(3, Unsigned(1)) \o <<Unsigned(8)>>)} |->
    Bind([c \in {IF b.ok /\ b.vals[21] # 0 THEN Raise(b, "CorruptedSwfException") ELSE b} |->
        Done(c, IF c.ok
                THEN [kind |-> "ClipEventFlags", flags |-> SubSeq(c.vals, 1, 16),
                      construct |-> c.vals[18], key_press |-> c.vals[19],
                      drag_out |-> c.vals[20]]
                ELSE NoObj)])])])

\* ClipActions.deserialize on a file opened with open(): f.seek(-4) is a
\* seek to a negative offset from the start, which a file object refuses
\* with IOError, so no ClipActionRecord is ever read.
ClipActionsDeserialize(src, pos) ==
    Bind([t \in {FileRead(src, pos, 2)} |->
        IF t.s # <<0, 0>>
        THEN [ok |-> FALSE, err |-> "CorruptedSwfException", pos |-> t.pos,
              obj |-> NoObj]
        ELSE Bind([fl \in {ClipEventFlagsDeserialize(src, t.pos)} |->
            IF ~fl.ok THEN fl
            ELSE Bind([look_ahead \in {FileRead(src, fl.pos, 4)} |->
                IF look_ahead.s = <<0, 0, 0, 0>>
                THEN [ok |-> TRUE, err |-> "", pos |-> look_ahead.pos,
                      obj |-> [kind |-> "ClipActions", event_flags |-> fl.obj,
                               records |-> <<>>]]
                ELSE [ok |-> FALSE, err |-> "IOError", pos |-> look_ahead.pos,
                      obj |-> NoObj]])])])

\* ClipActions.serialize: it iterates self.actions, an attribute no
\* ClipActions object has.
ClipActionsSerialize(ca) == Failed("AttributeError")

-----------------------------------------------------------------------------
(* The registered tags, swf.py 698-714, 908-1078, 1406-1432 *)

SET_BACKGROUND_COLOR == 9
SOUND_STREAM_HEAD == 18
SOUND_STREAM_BLOCK == 19
PLACE_OBJECT_2 == 26
VIDEO_FRAME == 61
SND_ADPCM == 1
SND_MP3 == 2

\* The outcome of a tag's deserialize: the tag, or the exception.
DoneTag(st, t) == [ok |-> st.ok, err |-> st.err, pos |-> st.pos, tag |-> t]

\* a sub-record was not present: nothing read, nothing raised
Skip(r) == [ok |-> r.ok, err |-> r.err, pos |-> r.pos, obj |-> NoObj]
SkipSt(r) == [ok |-> r.ok, err |-> r.err, pos |-> r.pos, bl |-> <<>>, vals |-> <<>>]

\* an optional attribute: <<>> is None
Opt(present, v) == IF present THEN <<v>> ELSE <<>>

\* SetBackgroundColorTag._deserialize (RgbColor.deserialize)
SetBackgroundColorBody(src, pos, t) ==
    Bind([st \in {ReadB(src, Start(pos), 3)} |->
        DoneTag(st, IF st.ok
                    THEN [kind |-> "SetBackgroundColor", tag_code |-> t.tag_code,
                          tag_length |-> t.tag_length,
                          r |-> st.vals[1], g |-> st.vals[2], b |-> st.vals[3]]
                    ELSE NoObj)])

\* SetBackgroundColorTag._serialize
SetBackgroundColorSerialize(t) == Wrote(<<t.r, t.g, t.b>>)

\* SoundStreamBlockTag._deserialize: f.read(tag_length), whatever it returns
SoundStreamBlockBody(src, pos, t) ==
    Bind([r \in {FileRead(src, pos, t.tag_length)} |->
        [ok |-> TRUE, err |-> "", pos |-> r.pos,
         tag |-> [kind |-> "SoundStreamBlock", tag_code |-> t.tag_code,
                  tag_length |-> t.tag_length, sound_data |-> r.s]]])

\* SoundStreamBlockTag._serialize
SoundStreamBlockSerialize(t) == Wrote(t.sound_data)

\* VideoFrameTag._deserialize
VideoFrameBody(src, pos, t) ==
    IF t.tag_length < 4
    THEN [ok |-> FALSE, err |-> "CorruptedSwfException", pos |-> pos, tag |-> NoObj]
    ELSE Bind([st \in {ReadH(src, ReadH(src, Start(pos)))} |->
        IF ~st.ok THEN DoneTag(st, NoObj)
        ELSE Bind([data \in {ensure_read(src, st.pos, t.tag_length - 4)} |->
            [ok |-> data.ok, err |-> data.err, pos |-> data.pos,
             tag |-> IF data.ok
                     THEN [kind |-> "VideoFrame", tag_code |-> t.tag_code,
                           tag_length |-> t.tag_length, stream_id |-> st.vals[1],
                           frame_num |-> st.vals[2], video_data |-> data.s]
                     ELSE NoObj]])])

\* VideoFrameTag._serialize
VideoFrameSerialize(t) == Wrote(PackH(t.stream_id) \o PackH(t.frame_num) \o t.video_data)

\* SoundStreamHeadTag._deserialize up to the check of playback_sound_size:
\* the 4 reserved bits are read and ignored
SoundStreamHeadFirst(src, pos) ==
    Bind([a \in {ReadFields(src, Start(pos), <<Unsigned(4), Unsigned(2), Unsigned(1)>>)} |->
        IF a.ok /\ a.vals[3] # 1 THEN Raise(a, "CorruptedSwfException") ELSE a])

\* a check of SoundStreamHeadTag._deserialize: vals[i] must be among allowed
Checked(st, i, allowed) ==
    IF st.ok /\ st.vals[i] \notin allowed THEN Raise(st, "CorruptedSwfException")
    ELSE st

\* SoundStreamHeadTag._deserialize
SoundStreamHeadBody(src, pos, t) ==
    Bind([a \in {SoundStreamHeadFirst(src, pos)} |->
    Bind([b \in {Checked(ReadFields(src, a, <<Unsigned(1), Unsigned(4)>>), 5,
                 {SND_ADPCM, SND_MP3})} |->
    Bind([c \in {Checked(ReadFields(src, b, <<Unsigned(2), Unsigned(1)>>), 7, {1})} |->
    Bind([d \in {ReadH(src, ReadFields(src, c, <<Unsigned(1)>>))} |->
    Bind([e \in {IF d.ok /\ d.vals[5] = SND_MP3 /\ t.tag_length > 4
         THEN ReadSignedH(src, d) ELSE d} |->
        DoneTag(e, IF e.ok
                   THEN [kind |-> "SoundStreamHead", tag_code |-> t.tag_code,
                         tag_length |-> t.tag_length,
                         playback_sound_rate |-> e.vals[2],
                         playback_sound_size |-> e.vals[3],
                         playback_sound_type |-> e.vals[4],
                         stream_sound_compression |-> e.vals[5],
                         stream_sound_rate |-> e.vals[6],
                         stream_sound_size |-> e.vals[7],
                         stream_sound_type |-> e.vals[8],
                         stream_sound_sample_count |-> e.vals[9],
                         latency_seek |-> IF Len(e.vals) = 10 THEN e.vals[10] ELSE 0]
                   ELSE NoObj)])])])])])

\* SoundStreamHeadTag._serialize
SoundStreamHeadSerialize(t) ==
    Wrote(FlushBytes(<<BitWrite(4, 0), BitWrite(2, t.playback_sound_rate),
                       BitWrite(1, t.playback_sound_size),
                       BitWrite(1, t.playback_sound_type),
                       BitWrite(4, t.stream_sound_compression),
                       BitWrite(2, t.stream_sound_rate),
                       BitWrite(1, t.stream_sound_size),
                       BitWrite(1, t.stream_sound_type)>>)
          \o PackH(t.stream_sound_sample_count)
          \o (IF t.stream_sound_compression = SND_MP3 /\ t.latency_seek # 0
              THEN PackSignedH(t.latency_seek) ELSE <<>>))

\* PlaceObject2Tag._deserialize
PlaceObject2Body(src, pos, t) ==
    Bind([a \in {ReadFields(src, Start(pos), Times(8, Unsigned(1)))} |->
    Bind([d \in {ReadH(src, [a EXCEPT !.vals = <<>>, !.bl = <<>>])} |->
    Bind([ch \in {IF a.ok /\ a.vals[7] # 0 THEN ReadH(src, d) ELSE d} |->
    Bind([m \in {IF ch.ok /\ a.vals[6] # 0 THEN MatrixDeserialize(src, ch.pos) ELSE Skip(ch)} |->
    Bind([ct \in {IF m.ok /\ a.vals[5] # 0 THEN ColorTransformWithAlphaDeserialize(src, m.pos)
         ELSE Skip(m)} |->
    Bind([ra \in {IF ct.ok /\ a.vals[4] # 0 THEN ReadH(src, Start(ct.pos)) ELSE SkipSt(ct)} |->
    Bind([nm \in {IF ra.ok /\ a.vals[3] # 0 THEN StringDeserialize(src, ra.pos) ELSE Skip(ra)} |->
    Bind([cd \in {IF nm.ok /\ a.vals[2] # 0 THEN ReadH(src, Start(nm.pos)) ELSE SkipSt(nm)} |->
    Bind([ca \in {IF cd.ok /\ a.vals[1] # 0 THEN ClipActionsDeserialize(src, cd.pos)
         ELSE Skip(cd)} |->
        [ok |-> ca.ok, err |-> ca.err, pos |-> ca.pos,
         tag |-> IF ca.ok
                 THEN [kind |-> "PlaceObject2", tag_code |-> t.tag_code,
                       tag_length |-> t.tag_length,
                       move |-> a.vals[8], depth |-> d.vals[1],
                       character_id |-> Opt(a.vals[7] # 0, ch.vals[2]),
                       matrix |-> Opt(a.vals[6] # 0, m.obj),
                       color_transform |-> Opt(a.vals[5] # 0, ct.obj),
                       ratio |-> Opt(a.vals[4] # 0, ra.vals[1]),
                       name |-> Opt(a.vals[3] # 0, nm.obj),
                       clip_depth |-> Opt(a.vals[2] # 0, cd.vals[1]),
                       clip_actions |-> Opt(a.vals[1] # 0, ca.obj)]
                 ELSE NoObj]])])])])])])])])])

\* `self.__dict__.get(name, None) is not None` as a bit
HasAttr(o) == IF Len(o) > 0 THEN 1 ELSE 0

\* PlaceObject2Tag._serialize
PlaceObject2Serialize(t) ==
    Bind([m \in {IF Len(t.matrix) > 0 THEN MatrixSerialize(t.matrix[1]) ELSE Wrote(<<>>)} |->
        IF ~m.ok THEN m
        ELSE Bind([ca \in {IF Len(t.clip_actions) > 0 THEN ClipActionsSerialize(t.clip_actions[1])
                  ELSE Wrote(<<>>)} |->
            IF ~ca.ok THEN ca
            ELSE Wrote(FlushBytes(<<BitWrite(1, HasAttr(t.clip_actions)),
                                    BitWrite(1, HasAttr(t.clip_depth)),
                                    BitWrite(1, HasAttr(t.name)),
                                    BitWrite(1, HasAttr(t.ratio)),
                                    BitWrite(1, HasAttr(t.color_transform)),
                                    BitWrite(1, HasAttr(t.matrix)),
                                    BitWrite(1, HasAttr(t.character_id)),
                                    BitWrite(1, t.move)>>)
                       \o PackH(t.depth)
                       \o (IF Len(t.character_id) > 0 THEN PackH(t.character_id[1])
                           ELSE <<>>)
                       \o m.bytes
                       \o (IF Len(t.color_transform) > 0
                           THEN ColorTransformWithAlphaSerialize(t.color_transform[1]).bytes
                           ELSE <<>>)
                       \o (IF Len(t.ratio) > 0 THEN PackH(t.ratio[1]) ELSE <<>>)
                       \o (IF Len(t.name) > 0 THEN StringSerialize(t.name[1]).bytes
                           ELSE <<>>)
                       \o (IF Len(t.clip_depth) > 0 THEN PackH(t.clip_depth[1])
                           ELSE <<>>)
                       \o ca.bytes)])])

\* UnknownTag._deserialize as a tag of the stream
OpaqueBody(src, pos, t) ==
    Bind([got \in {ensure_read(src, pos, t.tag_length)} |->
        [ok |-> got.ok, err |-> got.err, pos |-> got.pos,
         tag |-> IF got.ok
                 THEN [kind |-> "Unknown", tag_code |-> t.tag_code,
                       tag_length |-> t.tag_length, data |-> got.s]
                 ELSE NoObj]])

\* clz().clone_tag(tag).deserialize(self.file, False) with
\* clz = SwfFile.decoders.get(tag.tag_code, UnknownTag), swf.py 1465-1471
DecodeBody(src, pos, t) ==
    CASE t.tag_code = SET_BACKGROUND_COLOR -> SetBackgroundColorBody(src, pos, t)
      [] t.tag_code = PLACE_OBJECT_2 -> PlaceObject2Body(src, pos, t)
      [] t.tag_code = SOUND_STREAM_HEAD -> SoundStreamHeadBody(src, pos, t)
      [] t.tag_code = SOUND_STREAM_BLOCK -> SoundStreamBlockBody(src, pos, t)
      [] t.tag_code = VIDEO_FRAME -> VideoFrameBody(src, pos, t)
      [] OTHER -> OpaqueBody(src, pos, t)

\* tag._serialize(data) by the tag's class; Tag._serialize writes nothing
BodySerialize(t) ==
    CASE t.kind = "SetBackgroundColor" -> SetBackgroundColorSerialize(t)
      [] t.kind = "PlaceObject2" -> PlaceObject2Serialize(t)
      [] t.kind = "SoundStreamHead" -> SoundStreamHeadSerialize(t)
      [] t.kind = "SoundStreamBlock" -> SoundStreamBlockSerialize(t)
      [] t.kind = "VideoFrame" -> VideoFrameSerialize(t)
      [] t.kind = "Unknown" -> Wrote(t.data)
      [] OTHER -> Wrote(<<>>)

\* tag.serialize(fio) for a tag of any class
AnyTagSerialize(t) ==
    Bind([body \in {BodySerialize(t)} |->
        IF ~body.ok THEN body ELSE Wrote(TagSerialize(t.tag_code, body.bytes).bytes)])

-----------------------------------------------------------------------------
(* SwfFile.iter_body, swf.py 1541-1555 *)

\* `last_tag and last_tag.tag_code == 0`; last is <<>> for None
IterStopsAfter(last) == Len(last) > 0 /\ last[1].tag_code = 0

\* One pass of the loop of iter_body with the file at pos: the tag yielded,
\* the end of the iteration ("stop") or the exception that leaves it.
IterStep(src, pos, last) ==
    Bind([h \in {TagHeaderRead(src, pos)} |->
        IF ~h.ok
        THEN IF IterStopsAfter(last)
             THEN [what |-> "stop", err |-> "", pos |-> h.pos, tag |-> NoObj]
             ELSE [what |-> "raise", err |-> "CorruptedSwfException", pos |-> h.pos,
                   tag |-> NoObj]
        ELSE Bind([body \in {DecodeBody(src, h.pos, h)} |->
            IF ~body.ok
            THEN [what |-> "raise", err |-> body.err, pos |-> body.pos, tag |-> NoObj]
            ELSE [what |-> "yield", err |-> "", pos |-> body.pos, tag |-> body.tag]])])

-----------------------------------------------------------------------------
(* ScreenVideoBlock, swf.py 1081-1131; ScreenVideoPacket, swf.py 1134-1403 *)

KEY_FRAME == 1
INTER_FRAME == 2
SCREEN_VIDEO_CODEC == 3

\* An image of the imaging library: [mode, size, px], size = <<width, height>>
\* and px the pixels row by row from the top-left, each an <<r, g, b>>.
\* Image.new('RGB', (w, h)) is black.
NewImage(w, h) ==
    [mode |-> "RGB", size |-> <<w, h>>, px |-> [i \in 1..(w * h) |-> <<0, 0, 0>>]]

\* the pixel at column x, line y; outside the image a crop is black
GetPixel(img, x, y) ==
    IF x >= 0 /\ x < img.size[1] /\ y >= 0 /\ y < img.size[2]
    THEN img.px[y * img.size[1] + x + 1]
    ELSE <<0, 0, 0>>

\* list(img.crop((left, upper, right, lower)).getdata())
CropData(img, left, upper, right, lower) ==
    [i \in 1..((right - left) * (lower - upper)) |->
        GetPixel(img, left + ((i - 1) % (right - left)),
                 upper + ((i - 1) \div (right - left)))]

\* BgrColor as <<b, g, r>>: from_rgb_tuple and to_rgb_tuple
from_rgb_tuple(rgb) == <<rgb[3], rgb[2], rgb[1]>>
to_rgb_tuple(bgr) == <<bgr[3], bgr[2], bgr[1]>>

\* zlib.compress as a stored stream: a 2-byte header, the length of the data
\* as 16 bits, the data.  zlib.decompress raises zlib.error on anything else.
ZlibCompress(data) == <<120, 1>> \o PackH(Len(data)) \o data

ZlibDecompress(z) ==
    IF Len(z) < 4 \/ z[1] # 120 \/ z[2] # 1 \/ Len(z) # 4 + UnpackH(<<z[3], z[4]>>)
    THEN [ok |-> FALSE, data |-> <<>>]
    ELSE [ok |-> TRUE, data |-> SubSeq(z, 5, Len(z))]

\* ScreenVideoPacket(): the attributes __init__ sets
NewPacket ==
    [frame_type |-> KEY_FRAME, codec_id |-> SCREEN_VIDEO_CODEC,
     block_width |-> 0, block_height |-> 0, image_width |-> 0, image_height |-> 0,
     hoz_blk_cnt |-> 0, ver_blk_cnt |-> 0, block_count |-> 0, image_blocks |-> <<>>]

\* ScreenVideoPacket.prepare_blocks; an absent block (None) is <<>>, a
\* present one <<block>>
prepare_blocks(p) ==
    Bind([hoz \in {(p.image_width + p.block_width - 1) \div p.block_width} |->
    Bind([ver \in {(p.image_height + p.block_height - 1) \div p.block_height} |->
        [p EXCEPT !.hoz_blk_cnt = hoz, !.ver_blk_cnt = ver, !.block_count = hoz * ver,
                  !.image_blocks = [n \in 1..(hoz * ver) |-> <<>>]]])])

\* a get_block_dimension that clips no block
WholeBlockDimension(p, block_nr) == <<p.block_width, p.block_height>>

\* ScreenVideoPacket.get_block_dimension(block_nr): <<width, height>>
get_block_dimension(p, block_nr) ==
    <<IF block_nr % p.hoz_blk_cnt < p.hoz_blk_cnt - 1 THEN p.block_width
      ELSE p.image_width - (block_nr % p.hoz_blk_cnt) * p.block_width,
      IF block_nr \div p.hoz_blk_cnt < p.ver_blk_cnt - 1 THEN p.block_height
      ELSE p.image_height - (block_nr \div p.hoz_blk_cnt) * p.block_height>>

\* The block fill_blocks_from_image grabs for block_nr: the crop's lines from
\* the last one up.  stop_y is computed with block_width (swf.py 1379).
GrabBlock(p, img, block_nr) ==
    Bind([dim \in {get_block_dimension(p, block_nr)} |->
    Bind([start_x \in {(block_nr % p.hoz_blk_cnt) * p.block_width} |->
    Bind([stop_y \in {img.size[2] - (block_nr \div p.hoz_blk_cnt) * p.block_width} |->
    Bind([pixels \in {CropData(img, start_x, stop_y - dim[2], start_x + dim[1],
                               stop_y)} |->
        [width |-> dim[1], height |-> dim[2],
         pixels |-> [j \in 1..(dim[1] * dim[2]) |->
                        from_rgb_tuple(pixels[dim[1] * (dim[2] - 1 - ((j - 1) \div dim[1]))
                                              + ((j - 1) % dim[1]) + 1])]]])])])])

\* a comparison that finds no two blocks equal
SameBlockNever(a, b) == FALSE

\* ScreenVideoBlock.__cmp__ of two blocks as `==`: width, height and pixels
SameBlock(a, b) == a.width = b.width /\ a.height = b.height /\ a.pixels = b.pixels

\* ScreenVideoPacket.fill_blocks_from_image(img, previous_frame) on the
\* prepared packet p; prev is <<>> for None.  `None == svb` ends in
\* svb.__cmp__(None), which raises TypeError.
fill_blocks_from_image(p, img, prev) ==
    IF Len(prev) > 0 /\ \E n \in 1..p.block_count : Len(prev[1].image_blocks[n]) = 0
    THEN [ok |-> FALSE, err |-> "TypeError", packet |-> <<>>]
    ELSE [ok |-> TRUE, err |-> "",
          packet |-> <<[p EXCEPT !.image_blocks =
              [n \in 1..p.block_count |->
                  Bind([svb \in {GrabBlock(p, img, n - 1)} |->
                      IF Len(prev) > 0 /\ SameBlock(prev[1].image_blocks[n][1], svb)
                      THEN <<>> ELSE <<svb>>])]]>>]

\* ScreenVideoPacket().from_image(img, previous_frame, block_width, block_height)
from_image(img, prev, block_width, block_height) ==
    IF Len(prev) > 0 /\ <<prev[1].image_width, prev[1].image_height>> # img.size
    THEN [ok |-> FALSE, err |-> "SwfException", packet |-> <<>>]
    ELSE Bind([p \in {[NewPacket EXCEPT
                        !.block_width = IF Len(prev) > 0 THEN prev[1].block_width
                                        ELSE block_width,
                        !.block_height = IF Len(prev) > 0 THEN prev[1].block_height
                                         ELSE block_height,
                        !.frame_type = IF Len(prev) > 0 THEN INTER_FRAME
                                       ELSE KEY_FRAME]} |->
        IF p.block_width % 16 # 0 \/ p.block_height % 16 # 0 \/ img.mode # "RGB"
        THEN [ok |-> FALSE, err |-> "SwfException", packet |-> <<>>]
        ELSE fill_blocks_from_image(
                prepare_blocks([p EXCEPT !.image_width = img.size[1],
                                         !.image_height = img.size[2]]),
                img, prev)])

\* the bytes of the pixels, each as struct.pack('BBB', b, g, r)
PixelBytes(pixels) ==
    [i \in 1..(3 * Len(pixels)) |-> pixels[((i - 1) \div 3) + 1][((i - 1) % 3) + 1]]

\* ScreenVideoBlock.serialize
ScreenVideoBlockSerialize(blk) ==
    IF Len(blk.pixels) = 0 THEN FlushBytes(<<BitWrite(16, 0)>>)
    ELSE Bind([data \in {ZlibCompress(PixelBytes(blk.pixels))} |->
            FlushBytes(<<BitWrite(16, Len(data))>>) \o data])

\* ScreenVideoPacket.serialize
ScreenVideoPacketSerialize(p) ==
    FlushBytes(<<BitWrite(4, p.frame_type), BitWrite(4, p.codec_id),
                 BitWrite(4, (p.block_width \div 16) - 1), BitWrite(12, p.image_width),
                 BitWrite(4, (p.block_height \div 16) - 1),
                 BitWrite(12, p.image_height)>>)
        \o Flatten([n \in 1..Len(p.image_blocks) |->
                      IF Len(p.image_blocks[n]) > 0
                      THEN ScreenVideoBlockSerialize(p.image_blocks[n][1])
                      ELSE <<0, 0>>])

\* ScreenVideoBlock(width, height).deserialize(f): blk is <<>> for the None
\* a zero byte count returns
ScreenVideoBlockDeserialize(src, pos, width, height) ==
    Bind([size \in {ReadFields(src, Start(pos), <<Unsigned(16)>>)} |->
        IF ~size.ok THEN [ok |-> FALSE, err |-> size.err, pos |-> size.pos, blk |-> <<>>]
        ELSE IF size.vals[1] = 0
        THEN [ok |-> TRUE, err |-> "", pos |-> size.pos, blk |-> <<>>]
        ELSE Bind([blk_data \in {FileRead(src, size.pos, size.vals[1])} |->
             Bind([z \in {ZlibDecompress(blk_data.s)} |->
                IF ~z.ok
                THEN [ok |-> FALSE, err |-> "zlib.error", pos |-> blk_data.pos,
                      blk |-> <<>>]
                ELSE IF Len(z.data) < 3 * width * height
                THEN [ok |-> FALSE, err |-> "struct.error", pos |-> blk_data.pos,
                      blk |-> <<>>]
                ELSE [ok |-> TRUE, err |-> "", pos |-> blk_data.pos,
                      blk |-> <<[width |-> width, height |-> height,
                                 pixels |-> [j \in 1..(width * height) |->
                                    <<z.data[3 * j - 2], z.data[3 * j - 1],
                                      z.data[3 * j]>>]]>>]])])])

RECURSIVE fill_blocks(_, _, _, _)
\* ScreenVideoPacket.fill_blocks(f) from block_nr on
fill_blocks(src, pos, p, block_nr) ==
    IF block_nr >= p.block_count
    THEN [ok |-> TRUE, err |-> "", pos |-> pos, packet |-> <<p>>]
    ELSE Bind([dim \in {get_block_dimension(p, block_nr)} |->
         Bind([svb \in {ScreenVideoBlockDeserialize(src, pos, dim[1], dim[2])} |->
            IF ~svb.ok
            THEN [ok |-> FALSE, err |-> svb.err, pos |-> svb.pos, packet |-> <<>>]
            ELSE fill_blocks(src, svb.pos,
                             [p EXCEPT !.image_blocks[block_nr + 1] = svb.blk],
                             block_nr + 1)])])

\* ScreenVideoPacket().deserialize(f)
ScreenVideoPacketDeserialize(src, pos) ==
    Bind([a \in {ReadFields(src, Start(pos), <<Unsigned(4), Unsigned(4)>>)} |->
        IF ~a.ok THEN [ok |-> FALSE, err |-> a.err, pos |-> a.pos, packet |-> <<>>]
        ELSE IF a.vals[2] # SCREEN_VIDEO_CODEC
        THEN [ok |-> FALSE, err |-> "SwfException", pos |-> a.pos, packet |-> <<>>]
        ELSE Bind([b \in {ReadFields(src, a, <<Unsigned(4), Unsigned(12), Unsigned(4),
                                              Unsigned(12)>>)} |->
            IF ~b.ok THEN [ok |-> FALSE, err |-> b.err, pos |-> b.pos, packet |-> <<>>]
            ELSE fill_blocks(src, b.pos,
                    prepare_blocks([NewPacket EXCEPT
                        !.frame_type = b.vals[1],
                        !.block_width = (b.vals[3] + 1) * 16,
                        !.image_width = b.vals[4],
                        !.block_height = (b.vals[5] + 1) * 16,
                        !.image_height = b.vals[6]]),
                    0)])])

\* The pixel of packet p that to_image paints at column x, line y of an image
\* of the packet's size: <<>> when the block there is absent.
PaintedAt(p, x, y) ==
    Bind([up \in {p.image_height - 1 - y} |->
    Bind([n \in {(up \div p.block_height) * p.hoz_blk_cnt + (x \div p.block_width)} |->
        IF Len(p.image_blocks[n + 1]) = 0 THEN <<>>
        ELSE <<to_rgb_tuple(p.image_blocks[n + 1][1].pixels[
                    (up % p.block_height) * p.image_blocks[n + 1][1].width
                        + (x % p.block_width) + 1])>>])])

\* ScreenVideoPacket.to_image(image) for an image of the packet's size
to_image(p, image) ==
    [image EXCEPT !.px =
        [i \in 1..Len(image.px) |->
            Bind([at \in {PaintedAt(p, (i - 1) % image.size[1],
                                    (i - 1) \div image.size[1])} |->
                IF Len(at) = 0 THEN image.px[i] ELSE at[1]])]]

-----------------------------------------------------------------------------
(* FileHeader, swf.py 514-552; SwfFile.load_header, load and save,         *)
(* swf.py 1500-1539 and 1557-1592                                          *)

\* the bytes of the signature 'CWS' or 'FWS'
SignatureBytes(signature) ==
    IF signature = "CWS" THEN <<67, 87, 83>> ELSE <<70, 87, 83>>

\* FileHeader.compressed: signature[0] == 'C'
compressed(fih) == fih.signature = "CWS"

\* FileHeader.serialize: struct.pack('<3sBI', signature, version, file_length)
FileHeaderSerialize(fih) ==
    Wrote(SignatureBytes(fih.signature) \o <<fih.version>> \o PackI(fih.file_length))

\* FileHeader.deserialize: struct.unpack('<3sBI', f.read(8))
FileHeaderDeserialize(src, pos) ==
    Bind([r \in {FileRead(src, pos, 8)} |->
        IF Len(r.s) # 8
        THEN [ok |-> FALSE, err |-> "struct.error", pos |-> r.pos, obj |-> NoObj]
        ELSE IF SubSeq(r.s, 1, 3) \notin {SignatureBytes("FWS"), SignatureBytes("CWS")}
        THEN [ok |-> FALSE, err |-> "SwfException", pos |-> r.pos, obj |-> NoObj]
        ELSE [ok |-> TRUE, err |-> "", pos |-> r.pos,
              obj |-> [kind |-> "FileHeader",
                       signature |-> IF r.s[1] = 67 THEN "CWS" ELSE "FWS",
                       version |-> r.s[4],
                       file_length |-> UnpackI(SubSeq(r.s, 5, 8))]]])

\* a load that raised e
LoadFailed(e) ==
    [ok |-> FALSE, err |-> e, file |-> <<>>, pos |-> 0, header |-> <<>>, body |-> <<>>]

\* a load_header that lets any version be compressed
NeverTooOld(fih) == FALSE

\* `if fih.compressed: if fih.version < 6: raise SwfException`, swf.py 1517-1520
CompressedTooOld(fih) == compressed(fih) /\ fih.version < 6

\* SwfFile.load_header on a file of the bytes src: the Header (<<>> when an
\* exception left self.header as it was), and self.file as the bytes it holds
\* and the position reached
load_header(src) ==
    Bind([fih \in {FileHeaderDeserialize(src, 0)} |->
        IF ~fih.ok THEN [LoadFailed(fih.err) EXCEPT !.file = src, !.pos = fih.pos]
        ELSE IF CompressedTooOld(fih.obj)
        THEN [LoadFailed("SwfException") EXCEPT !.file = src, !.pos = fih.pos]
        ELSE Bind([z \in {IF compressed(fih.obj)
                         THEN ZlibDecompress(SubSeq(src, 9, Len(src)))
                         ELSE [ok |-> TRUE, data |-> src]} |->
            IF ~z.ok THEN [LoadFailed("zlib.error") EXCEPT !.file = src, !.pos = Len(src)]
            ELSE Bind([frh \in {FrameHeaderDeserialize(
                                   z.data, IF compressed(fih.obj) THEN 0 ELSE 8)} |->
                IF ~frh.ok
                THEN [LoadFailed(frh.err) EXCEPT !.file = z.data, !.pos = frh.pos]
                ELSE [ok |-> TRUE, err |-> "", file |-> z.data, pos |-> frh.pos,
                      header |-> [file_header |-> fih.obj, frame_header |-> frh.obj],
                      body |-> <<>>]])])])

RECURSIVE IterBody(_, _, _)
\* [tag for tag in self.iter_body()]: the tags yielded until the iteration
\* stops, or the exception that leaves it
IterBody(src, pos, last) ==
    Bind([r \in {IterStep(src, pos, last)} |->
        IF r.what = "stop" THEN [ok |-> TRUE, err |-> "", tags |-> <<>>]
        ELSE IF r.what = "raise" THEN [ok |-> FALSE, err |-> r.err, tags |-> <<>>]
        ELSE Bind([rest \in {IterBody(src, r.pos, <<r.tag>>)} |->
            [ok |-> rest.ok, err |-> rest.err, tags |-> <<r.tag>> \o rest.tags]])])

\* SwfFile.load(file_name): load_header, then the body from iter_body
load(src) ==
    Bind([h \in {load_header(src)} |->
        IF ~h.ok THEN h
        ELSE Bind([b \in {IterBody(h.file, h.pos, <<>>)} |->
            IF ~b.ok THEN LoadFailed(b.err) ELSE [h EXCEPT !.body = b.tags]])])

\* The tag after tag.serialize wrote a body of n bytes: tag_length is n, and
\* ColorTransformWithAlpha.serialize has extended the add_term of the tag's
\* color transform.
TagAfterSerialize(t, n) ==
    Bind([u \in {[t EXCEPT !.tag_length = n]} |->
        IF t.kind = "PlaceObject2" /\ Len(t.color_transform) > 0
        THEN [u EXCEPT !.color_transform =
                          <<ColorTransformWithAlphaSerialize(t.color_transform[1]).obj>>]
        ELSE u])

RECURSIVE SerializeTags(_)
\* `for tag in iter_body: tag.serialize(fio)`: the bytes written and the tags
\* afterwards, up to the first exception
SerializeTags(tags) ==
    IF Len(tags) = 0 THEN [ok |-> TRUE, err |-> "", bytes |-> <<>>, tags |-> <<>>]
    ELSE Bind([b \in {BodySerialize(Head(tags))} |->
        IF ~b.ok THEN [ok |-> FALSE, err |-> b.err, bytes |-> <<>>, tags |-> tags]
        ELSE Bind([rest \in {SerializeTags(Tail(tags))} |->
            [ok |-> rest.ok, err |-> rest.err,
             bytes |-> TagSerialize(Head(tags).tag_code, b.bytes).bytes \o rest.bytes,
             tags |-> <<TagAfterSerialize(Head(tags), Len(b.bytes))>> \o rest.tags]])])

\* a header whose file_length is left as the caller set it
KeepLength(header, data) == header

\* self.header.file_header.file_length = 8 + len(data), swf.py 1582
FixLength(header, data) == [header EXCEPT !.file_header.file_length = 8 + Len(data)]

\* SwfFile.save(file_name, iter_body) of a file with this header: the bytes of
\* the file written, the header with file_length fixed and the tags
\* afterwards; an exception of a serialize leaves save before the file is
\* opened.
save(header, body) ==
    Bind([frh \in {FrameHeaderSerialize(header.frame_header)} |->
    Bind([tg \in {SerializeTags(body)} |->
        IF ~tg.ok
        THEN [ok |-> FALSE, err |-> tg.err, bytes |-> <<>>, header |-> header,
              body |-> tg.tags]
        ELSE Bind([data \in {frh.bytes \o tg.bytes} |->
             Bind([h \in {FixLength(header, data)} |->
                [ok |-> TRUE, err |-> "",
                 bytes |-> FileHeaderSerialize(h.file_header).bytes
                              \o (IF compressed(h.file_header) THEN ZlibCompress(data)
                                  ELSE data),
                 header |-> h, body |-> tg.tags]])])])])

-----------------------------------------------------------------------------
(* Idle values of each component, for the specifications that leave it alone *)

BitIdle ==
    /\ buffer = <<>> /\ fio = <<>> /\ backlog = <<>> /\ fpos = 0
    /\ wlog = <<>> /\ rlog = <<>> /\ bphase = "idle"

ReqIdle == numbers = <<>> /\ nbits = 0 /\ prev_nbits = 0

NoDec == [ok |-> FALSE, err |-> "", tag |-> NoTag, pos |-> 0]

TagIdle ==
    /\ tag = NoTag /\ tag_out = <<>> /\ tag_in = <<>> /\ tag_dec = NoDec
    /\ tphase = "idle"

IterIdle ==
    /\ file = <<>> /\ cur = 0 /\ last_tag = <<>> /\ yielded = <<>>
    /\ istate = "idle" /\ ierr = ""

NoOutcome == [ok |-> FALSE, err |-> "", pos |-> 0]

RecIdle == rec_kind = "" /\ rec_in = <<>> /\ rec_out = NoOutcome /\ rphase = "idle"

VidIdle ==
    /\ images = <<>> /\ previous_frame = <<>> /\ sv_packet = <<>>
    /\ video_data = <<>> /\ svp = <<>> /\ last_img = <<>> /\ shown = <<>>
    /\ vphase = "idle" /\ verr = ""

NoFile == [header |-> <<>>, body |-> <<>>]

FileIdle ==
    /\ swf = NoFile /\ saved = <<>> /\ loaded = <<>> /\ resaved = <<>>
    /\ fphase = "idle" /\ ferr = ""

ObjIdle == robj = <<>> /\ wire = <<>> /\ sers = <<>> /\ ophase = "idle"

-----------------------------------------------------------------------------
(* SpecBits: a BitWriter that is written and flushed once, then a fresh    *)
(* BitReader over the emitted bytes.                                       *)

\* The values written at width w: the ends of the range and their neighbours.
UnsignedVals(w) == {0, 1, Pow2(w) - 1, Pow2(w) \div 2} \cap (0..(Pow2(w) - 1))
SignedVals(w) == {-Pow2(w - 1), -1, 0, 1, Pow2(w - 1) - 1}
                    \cap ((-Pow2(w - 1))..(Pow2(w - 1) - 1))

BitsInit ==
    /\ buffer = <<>> /\ fio = <<>> /\ backlog = <<>> /\ fpos = 0
    /\ wlog = <<>> /\ rlog = <<>> /\ bphase = "write"
    /\ ReqIdle /\ TagIdle /\ IterIdle /\ RecIdle /\ VidIdle /\ FileIdle
    /\ ObjIdle

\* bw.write(w, v) with v an unsigned value of width w
WriteUnsigned ==
    /\ bphase = "write" /\ Len(wlog) < MaxWrites
    /\ \E w \in 0..MaxWidth : \E v \in UnsignedVals(w) :
        /\ buffer' = Append(buffer, BitWrite(w, v))
        /\ wlog' = Append(wlog, [w |-> w, v |-> v, sign |-> FALSE])
    /\ UNCHANGED <<fio, backlog, fpos, rlog, bphase, notBits>>

\* bw.write(w, v) with v a two's-complement value of width w >= 2
WriteSigned ==
    /\ bphase = "write" /\ Len(wlog) < MaxWrites
    /\ \E w \in 2..MaxWidth : \E v \in SignedVals(w) :
        /\ buffer' = Append(buffer, BitWrite(w, v))
        /\ wlog' = Append(wlog, [w |-> w, v |-> v, sign |-> TRUE])
    /\ UNCHANGED <<fio, backlog, fpos, rlog, bphase, notBits>>

\* bw.flush(), then BitReader(StringIO(f.getvalue()))
Flush ==
    /\ bphase = "write"
    /\ fio' = fio \o FlushBytes(buffer)
    /\ buffer' = <<>>
    /\ backlog' = <<>> /\ fpos' = 0
    /\ bphase' = "read"
    /\ UNCHANGED <<wlog, rlog, notBits>>

\* The next read, of the width and signedness of the write at the same place.
ReadNext ==
    /\ bphase = "read" /\ Len(rlog) < Len(wlog)
    /\ \E wr \in {wlog[Len(rlog) + 1]} :
       \E res \in {IF wr.sign THEN sign_read(fio, fpos, backlog, wr.w)
                   ELSE unsign_read(fio, fpos, backlog, wr.w)} :
          /\ backlog' = res.backlog
          /\ fpos' = res.pos
          /\ rlog' = Append(rlog, [w |-> wr.w, sign |-> wr.sign, ok |-> res.ok,
                                   v |-> res.v, err |-> res.err])
    /\ UNCHANGED <<buffer, fio, wlog, bphase, notBits>>

BitsNext == WriteUnsigned \/ WriteSigned \/ Flush \/ ReadNext

SpecBits == BitsInit /\ [][BitsNext]_vars

-----------------------------------------------------------------------------
(* SpecReq: calls of required_bits on growing argument lists.              *)

ReqInit ==
    /\ numbers = <<>> /\ nbits = required_bits(<<>>) /\ prev_nbits = required_bits(<<>>)
    /\ BitIdle /\ TagIdle /\ IterIdle /\ RecIdle /\ VidIdle /\ FileIdle
    /\ ObjIdle

\* required_bits(L..., x) after required_bits(L...)
RequiredBitsCall ==
    /\ Len(numbers) < MaxArgs
    /\ \E x \in (-MaxNum)..MaxNum :
        /\ numbers' = Append(numbers, x)
        /\ nbits' = required_bits(Append(numbers, x))
        /\ prev_nbits' = nbits
    /\ UNCHANGED notReq

ReqNext == RequiredBitsCall

SpecReq == ReqInit /\ [][ReqNext]_vars

-----------------------------------------------------------------------------
(* SpecTag: one UnknownTag is built, serialized, and read back from the    *)
(* bytes written followed by the bytes of whatever comes next.             *)

\* the tag codes tried: both ends of the 10-bit range, registered codes
\* among them (UnknownTag can be given any code)
TagCodes == {0, 1, 9, 61, 1023}

\* the tag_length a tag holds before serialize: any stale value
StaleLengths == {0, 5, 63}

\* a payload of n bytes, all different from their neighbours
Payload(n, first) == [i \in 1..n |-> (first + i) % 256]

TagInit ==
    /\ tphase = "new"
    /\ \E c \in TagCodes, n \in 0..MaxPayload, first \in {0, 200},
          stale \in StaleLengths :
            tag = [tag_code |-> c, tag_length |-> stale, data |-> Payload(n, first)]
    /\ tag_out = <<>> /\ tag_in = <<>> /\ tag_dec = NoDec
    /\ BitIdle /\ ReqIdle /\ IterIdle /\ RecIdle /\ VidIdle /\ FileIdle
    /\ ObjIdle

\* tag.serialize(f)
TagSerializeStep ==
    /\ tphase = "new"
    /\ \E r \in {TagSerialize(tag.tag_code, tag.data)} :
          /\ tag_out' = r.bytes
          /\ tag' = [tag EXCEPT !.tag_length = r.tag_length]
    /\ tphase' = "serialized"
    /\ UNCHANGED <<tag_in, tag_dec, notTag>>

\* UnknownTag().deserialize(f), f holding the serialized tag and then `rest`
TagDeserializeStep ==
    /\ tphase = "serialized"
    /\ \E rest \in {<<>>, <<0, 0>>, <<7, 7, 7>>} :
        /\ tag_in' = tag_out \o rest
        /\ tag_dec' = UnknownTagDeserialize(tag_out \o rest, 0)
    /\ tphase' = "decoded"
    /\ UNCHANGED <<tag, tag_out, notTag>>

TagNext == TagSerializeStep \/ TagDeserializeStep

SpecTag == TagInit /\ [][TagNext]_vars

-----------------------------------------------------------------------------
(* C3 *)

-----------------------------------------------------------------------------
(* C4 *)

\* C4: reading back the bytes serialize wrote for an opaque tag gives a tag
\* with the same code, the same length and the same payload, and leaves the
\* source positioned right after the bytes serialize wrote.
C4_TagFramingRoundTrip ==
    tphase = "decoded" =>
        /\ tag_dec.ok
        /\ tag_dec.tag.tag_code = tag.tag_code
        /\ tag_dec.tag.tag_length = Len(tag.data)
        /\ tag_dec.tag.data = tag.data
        /\ tag_dec.pos = Len(tag_out)

C4_Witness ==
    /\ tphase = "decoded" /\ tag_dec.ok /\ Len(tag.data) = 63
    /\ Len(tag_in) > Len(tag_out) /\ tag_dec.tag.data = tag.data

-----------------------------------------------------------------------------
(* SpecIter: iter_body over a file holding some tags, cut at any byte.     *)

\* The framed tags the streams are built from: End, an opaque tag in short
\* form and one in extended form, a tag of code 0 with a payload, one tag
\* of each registered class, and a SetBackgroundColor tag that declares one
\* byte more than the colour.
TagMenu ==
    << TagSerialize(0, <<>>).bytes,
       TagSerialize(1, <<5, 6>>).bytes,
       PackH(2 * 64 + 63) \o PackI(1) \o <<9>>,
       TagSerialize(0, <<4>>).bytes,
       TagSerialize(SET_BACKGROUND_COLOR, <<1, 2, 3>>).bytes,
       TagSerialize(SOUND_STREAM_BLOCK, <<7, 8>>).bytes,
       TagSerialize(VIDEO_FRAME, <<1, 0, 2, 0, 9>>).bytes,
       TagSerialize(SOUND_STREAM_HEAD, <<6, 22, 3, 0>>).bytes,
       TagSerialize(PLACE_OBJECT_2, <<0, 1, 0>>).bytes,
       PackH(SET_BACKGROUND_COLOR * 64 + 4) \o <<1, 2, 3, 4>> >>

RECURSIVE Join(_, _)
\* the tags of TagMenu picked by the indices of ix, one after another
Join(menu, ix) == IF Len(ix) = 0 THEN <<>> ELSE menu[Head(ix)] \o Join(menu, Tail(ix))

TagPicks == UNION {[1..n -> 1..Len(TagMenu)] : n \in 0..MaxTags}

IterInit ==
    /\ \E ix \in TagPicks : \E k \in 0..Len(Join(TagMenu, ix)) :
          file = SubSeq(Join(TagMenu, ix), 1, k)
    /\ cur = 0 /\ last_tag = <<>> /\ yielded = <<>>
    /\ istate = "running" /\ ierr = ""
    /\ BitIdle /\ ReqIdle /\ TagIdle /\ RecIdle /\ VidIdle /\ FileIdle
    /\ ObjIdle

\* next(it): one pass of the loop of iter_body
IterNext ==
    /\ istate = "running"
    /\ \E r \in {IterStep(file, cur, last_tag)} :
          /\ cur' = r.pos
          /\ istate' = CASE r.what = "yield" -> "running"
                         [] r.what = "stop" -> "stopped"
                         [] OTHER -> "raised"
          /\ ierr' = r.err
          /\ yielded' = IF r.what = "yield"
                        THEN Append(yielded, [tag |-> r.tag, from |-> cur, to |-> r.pos])
                        ELSE yielded
          /\ last_tag' = IF r.what = "yield" THEN <<r.tag>> ELSE last_tag
    /\ UNCHANGED <<file, notIter>>

IterSpecNext == IterNext

SpecIter == IterInit /\ [][IterSpecNext]_vars

-----------------------------------------------------------------------------
(* C5 *)

RECURSIVE FramesEndAtEnd(_, _, _)
\* The bytes of s from pos on are whole framed tags (a header and as many
\* payload bytes as it declares), the last of them the End tag.
FramesEndAtEnd(s, pos, lastIsEnd) ==
    IF pos = Len(s) THEN lastIsEnd
    ELSE Bind([h \in {TagHeaderRead(s, pos)} |->
            /\ h.ok
            /\ h.pos + h.tag_length <= Len(s)
            /\ FramesEndAtEnd(s, h.pos + h.tag_length,
                              h.tag_code = 0 /\ h.tag_length = 0)])

EndsAfterEndTag(s) == FramesEndAtEnd(s, 0, FALSE)

\* C5 as stated: the iteration ends cleanly only on an input that ends right
\* after a well-formed End tag, and on every other input it is left by
\* CorruptedSwfException.
C5_IterTermination ==
    /\ istate = "stopped" => EndsAfterEndTag(file)
    /\ istate = "raised" => ierr = "CorruptedSwfException" /\ ~EndsAfterEndTag(file)

-----------------------------------------------------------------------------
(* C6 *)

IsEndTag(t) == t.tag_code = 0 /\ t.tag_length = 0

\* C6 as stated: once the End tag (code 0, length 0) has been yielded no
\* further tag is yielded, whatever follows it in the file.
C6_EndTagIsLast ==
    \A i \in 1..(Len(yielded) - 1) : ~IsEndTag(yielded[i].tag)

-----------------------------------------------------------------------------
(* SpecRec: one deserialize of ClipEventFlags, ClipActions or              *)
(* SoundStreamHeadTag on a file whose reserved bits may be set.            *)

\* the values a byte of the input takes: no bit, the lowest, the highest, all
ByteVals == {0, 1, 128, 255}

\* ClipEventFlags on the wire: 16 flags, 5 reserved bits and 3 flags, 8
\* reserved bits
ClipEventFlagsInputs ==
    {<<a, a, b, c>> : a \in {0, 255}, b \in {0, 7, 8, 128, 255}, c \in ByteVals}

\* ClipActions on the wire: 2 reserved bytes, ClipEventFlags, and here no
\* record before the 4 zero bytes that end the list
ClipActionsInputs ==
    {<<a, b>> \o fl \o <<0, 0, 0, 0>> :
        a \in ByteVals, b \in ByteVals, fl \in {<<0, 0, 0, 0>>, <<255, 255, 7, 0>>,
                                                <<0, 0, 16, 0>>, <<0, 0, 0, 1>>}}

\* SoundStreamHead on the wire: 4 reserved bits, playback rate 1, size 1 (16
\* bit), type 0; ADPCM or MP3, stream rate 1, size 1, type 0; a sample count
\* and, with MP3 in a 6-byte tag, a latency seek
SoundStreamHeadInputs ==
    {<<16 * r + 6, 16 * c + 6, 3, 0>> \o lat :
        r \in 0..15, c \in {SND_ADPCM, SND_MP3}, lat \in {<<>>, <<9, 0>>}}

RecInputs(kind) ==
    CASE kind = "ClipEventFlags" -> ClipEventFlagsInputs
      [] kind = "ClipActions" -> ClipActionsInputs
      [] OTHER -> SoundStreamHeadInputs

RecInit ==
    /\ rec_kind \in {"ClipEventFlags", "ClipActions", "SoundStreamHead"}
    /\ \E full \in RecInputs(rec_kind) : \E k \in 1..Len(full) :
          rec_in = SubSeq(full, 1, k)
    /\ rec_out = NoOutcome /\ rphase = "new"
    /\ BitIdle /\ ReqIdle /\ TagIdle /\ IterIdle /\ VidIdle /\ FileIdle
    /\ ObjIdle

\* clz().deserialize(f) on a file holding rec_in
RecDeserialize ==
    /\ rphase = "new"
    /\ \E r \in {CASE rec_kind = "ClipEventFlags" ->
                        ClipEventFlagsDeserialize(rec_in, 0)
                     [] rec_kind = "ClipActions" -> ClipActionsDeserialize(rec_in, 0)
                     [] OTHER -> SoundStreamHeadBody(rec_in, 0,
                                     [tag_code |-> SOUND_STREAM_HEAD,
                                      tag_length |-> Len(rec_in)])} :
          rec_out' = [ok |-> r.ok, err |-> r.err, pos |-> r.pos]
    /\ rphase' = "decoded"
    /\ UNCHANGED <<rec_kind, rec_in, notRec>>

RecNext == RecDeserialize

SpecRec == RecInit /\ [][RecNext]_vars

-----------------------------------------------------------------------------
(* C7 *)

\* byte i of the input is there and has one of the bits of mask set
BitsSet(s, i, mask) == Len(s) >= i /\ (s[i] % (2 * mask)) \div mask # 0
AnyBitSet(s, i, masks) == \E m \in masks : BitsSet(s, i, m)

\* the reserved bits of ClipEventFlags starting at byte `at` of s: the top 5
\* bits of its third byte and its fourth byte
ClipEventFlagsReserved(s, at) ==
    \/ AnyBitSet(s, at + 2, {8, 16, 32, 64, 128})
    \/ AnyBitSet(s, at + 3, {1, 2, 4, 8, 16, 32, 64, 128})

\* some reserved bit of the structure is set in the input
ReservedNonZero ==
    CASE rec_kind = "ClipEventFlags" -> ClipEventFlagsReserved(rec_in, 1)
      [] rec_kind = "ClipActions" ->
            \/ (Len(rec_in) >= 1 /\ rec_in[1] # 0)
            \/ (Len(rec_in) >= 2 /\ rec_in[2] # 0)
            \/ ClipEventFlagsReserved(rec_in, 3)
      [] OTHER -> AnyBitSet(rec_in, 1, {16, 32, 64, 128})

\* the input holds the whole structure
RecComplete == rec_in \in RecInputs(rec_kind)

\* C7 as stated: a deserialize whose input has a reserved bit set is left by
\* CorruptedSwfException.
C7_ReservedBitsRejected ==
    rphase = "decoded" /\ RecComplete /\ ReservedNonZero =>
        ~rec_out.ok /\ rec_out.err = "CorruptedSwfException"

\* the same for the two structures other than SoundStreamHead
C7_ClipReservedBitsRejected ==
    rec_kind # "SoundStreamHead" => C7_ReservedBitsRejected

-----------------------------------------------------------------------------
(* SpecVideo: a Screen Video stream.  Each frame is built from an image by  *)
(* from_image (the first as a key frame, the others against the packet     *)
(* before), serialized, deserialized and painted as svout.py does.          *)

\* the sides of the images: one pixel, one whole block, a block and a bit
ImageSides == {1, 16, MaxSide}

\* the block sizes asked for: 24 is not a multiple of 16
BlockSides == {16, 24, 32}

Patterns == {"black", "flat", "ramp", "dots"}

\* the <<r, g, b>> of pattern pat at column x, line y
PatternPixel(pat, x, y) ==
    CASE pat = "black" -> <<0, 0, 0>>
      [] pat = "flat" -> <<10, 20, 30>>
      [] pat = "ramp" -> <<x, y, x + y + 100>>
      [] OTHER -> IF (x + 2 * y) % 3 = 0 THEN <<255, 0, 1>> ELSE <<0, 0, 0>>

TestImage(pat, w, h) ==
    [mode |-> "RGB", size |-> <<w, h>>,
     px |-> [i \in 1..(w * h) |-> PatternPixel(pat, (i - 1) % w, (i - 1) \div w)]]

\* a greyscale image
GreyImage(w, h) == [mode |-> "L", size |-> <<w, h>>, px |-> [i \in 1..(w * h) |-> 0]]

\* the images offered for the first frame
FirstImages ==
    {TestImage(pat, w, h) : pat \in Patterns, w \in ImageSides, h \in ImageSides}
        \cup {GreyImage(w, h) : w \in ImageSides, h \in ImageSides}

\* the images offered after a frame of the given size: the patterns at that
\* size, and one image of another size
NextImages(size) ==
    {TestImage(pat, size[1], size[2]) : pat \in Patterns}
        \cup {TestImage("flat", size[1] + 1, size[2])}

VideoInit ==
    /\ images = <<>> /\ previous_frame = <<>> /\ sv_packet = <<>>
    /\ video_data = <<>> /\ svp = <<>> /\ last_img = <<>> /\ shown = <<>>
    /\ vphase = "start" /\ verr = ""
    /\ BitIdle /\ ReqIdle /\ TagIdle /\ IterIdle /\ RecIdle /\ FileIdle
    /\ ObjIdle

\* ScreenVideoPacket().from_image(img, previous_frame, block_width,
\* block_height): the first frame without previous_frame, the others with the
\* packet of the frame before and the default block sizes
EncodeFrame ==
    /\ vphase \in {"start", "painted"}
    /\ Len(images) < MaxFrames
    /\ \E img \in (IF Len(images) = 0 THEN FirstImages ELSE NextImages(images[1].size)),
          block_width \in (IF Len(images) = 0 THEN BlockSides ELSE {32}),
          block_height \in (IF Len(images) = 0 THEN BlockSides ELSE {32}) :
        \E r \in {from_image(img, sv_packet, block_width, block_height)} :
            /\ images' = Append(images, img)
            /\ previous_frame' = sv_packet
            /\ sv_packet' = IF r.ok THEN r.packet ELSE sv_packet
            /\ vphase' = IF r.ok THEN "encoded" ELSE "failed"
            /\ verr' = r.err
    /\ UNCHANGED <<video_data, svp, last_img, shown, notVid>>

\* packet.serialize(f)
SerializePacket ==
    /\ vphase = "encoded"
    /\ video_data' = ScreenVideoPacketSerialize(sv_packet[1])
    /\ vphase' = "serialized"
    /\ UNCHANGED <<images, previous_frame, sv_packet, svp, last_img, shown, verr, notVid>>

\* svp = ScreenVideoPacket().deserialize(data), svout.py 40
DeserializePacket ==
    /\ vphase = "serialized"
    /\ \E r \in {ScreenVideoPacketDeserialize(video_data, 0)} :
        /\ svp' = IF r.ok THEN r.packet ELSE svp
        /\ vphase' = IF r.ok THEN "decoded" ELSE "failed"
        /\ verr' = r.err
    /\ UNCHANGED <<images, previous_frame, sv_packet, video_data, last_img, shown, notVid>>

\* svout.py 41-45: a key frame starts from a new image, any other frame from
\* the image of the frame before; to_image paints the packet's blocks on it
PaintFrame ==
    /\ vphase = "decoded"
    /\ \E img \in {to_image(svp[1],
                            IF svp[1].frame_type = KEY_FRAME
                            THEN NewImage(svp[1].image_width, svp[1].image_height)
                            ELSE last_img[1])} :
        /\ last_img' = <<img>>
        /\ shown' = Append(shown, img)
    /\ vphase' = "painted"
    /\ UNCHANGED <<images, previous_frame, sv_packet, video_data, svp, verr, notVid>>

VideoNext == EncodeFrame \/ SerializePacket \/ DeserializePacket \/ PaintFrame

SpecVideo == VideoInit /\ [][VideoNext]_vars

-----------------------------------------------------------------------------
(* C8 *)

\* the second frame has been encoded from the image of the key frame before
\* it, and played back
UnchangedFramePlayed ==
    vphase = "painted" /\ Len(images) = 2 /\ images[2] = images[1]

-----------------------------------------------------------------------------
(* C2 *)

AllPositiveWidths == \A i \in 1..Len(wlog) : wlog[i].w >= 1

\* C2 as stated: every read returns the value written at the same place.
C2_BitRoundTrip_AnyWidth ==
    \A i \in 1..Len(rlog) : rlog[i].ok /\ rlog[i].v = wlog[i].v

\* C2 (amended): when every written width is at least 1 (at least 2 for a
\* signed value), reading the same widths in the same order from a fresh
\* BitReader over the flushed bytes returns the written values in order.
C2_BitRoundTrip ==
    AllPositiveWidths => \A i \in 1..Len(rlog) : rlog[i].ok /\ rlog[i].v = wlog[i].v

C2_Witness ==
    /\ bphase = "read" /\ Len(rlog) = 2 /\ AllPositiveWidths
    /\ wlog[1].w + wlog[2].w > 8
    /\ wlog[2].sign /\ wlog[2].v < 0 /\ rlog[2].v = wlog[2].v

-----------------------------------------------------------------------------
(* C9, C10 *)

Fits(w, v) == -Pow2(w - 1) <= v /\ v <= Pow2(w - 1) - 1

\* the smallest w >= 2 in which every value of nums fits
MinimalWidth(nums) ==
    CHOOSE w \in 2..40 :
        /\ \A i \in 1..Len(nums) : Fits(w, nums[i])
        /\ \A u \in 2..(w - 1) : \E i \in 1..Len(nums) : ~Fits(u, nums[i])

\* C9: for every non-empty argument list required_bits returns the smallest
\* width w >= 2 in which every argument fits as a two's-complement value,
\* and the values of the unit test come out as the test states them.
C9_RequiredBitsMinimal ==
    /\ Len(numbers) > 0 => nbits = MinimalWidth(numbers)
    /\ required_bits(<<0>>) = 2 /\ required_bits(<<1>>) = 2
    /\ required_bits(<<2>>) = 3 /\ required_bits(<<-1>>) = 2
    /\ required_bits(<<-2>>) = 2 /\ required_bits(<<-3>>) = 3
    /\ required_bits(<<0, 1, 2, 3, -1, -2, -3, -4>>) = 3
    /\ required_bits(<<0, 1, 2, 3, 4, -1, -2, -3, -4, -5>>) = 4

C9_Witness ==
    /\ Len(numbers) = 3 /\ nbits = 4
    /\ \E i \in 1..3 : numbers[i] = -5
    /\ \E i \in 1..3 : numbers[i] = 4

\* C10 as stated: adding an argument never lowers the result, the empty
\* argument list included.
C10_RequiredBitsMonotonic == nbits >= prev_nbits

-----------------------------------------------------------------------------
(* SpecFile: a SwfFile built in memory is saved, the file is loaded, and   *)
(* what was loaded is saved again.                                         *)

\* The headers of the files: FileHeader() as constructed (FWS, version 7)
\* and a compressed one of version 6, each with a stale file_length, over a
\* frame of 550 x 400 pixels in twips at 12 frames per second and over a
\* frame with a negative corner.
FileHeaders ==
    { [file_header |-> [kind |-> "FileHeader", signature |-> "FWS", version |-> 7,
                        file_length |-> 0],
       frame_header |-> [kind |-> "FrameHeader",
                         frame_size |-> [kind |-> "Rect", x_min |-> 0, x_max |-> 11000,
                                         y_min |-> 0, y_max |-> 8000],
                         frame_rate |-> 12 * 256, frame_count |-> 1]],
      [file_header |-> [kind |-> "FileHeader", signature |-> "CWS", version |-> 6,
                        file_length |-> 99],
       frame_header |-> [kind |-> "FrameHeader",
                         frame_size |-> [kind |-> "Rect", x_min |-> -20, x_max |-> 20,
                                         y_min |-> -1, y_max |-> 0],
                         frame_rate |-> 0, frame_count |-> 300]] }

\* Tag(): the End tag
EndTag == [kind |-> "Tag", tag_code |-> 0, tag_length |-> 0]

\* PlaceObject2Tag() as constructed
NewPlaceObject2 ==
    [kind |-> "PlaceObject2", tag_code |-> PLACE_OBJECT_2, tag_length |-> 0,
     move |-> 0, depth |-> 0, character_id |-> <<>>, matrix |-> <<>>,
     color_transform |-> <<>>, ratio |-> <<>>, name |-> <<>>, clip_depth |-> <<>>,
     clip_actions |-> <<>>]

\* Matrix() with the attributes set; scale and rotate hold the 16.16 integers
\* that Matrix.serialize writes
NewMatrix(scale, rotate, translate) ==
    [kind |-> "Matrix", scale |-> scale, rotate |-> rotate, translate |-> translate]

\* SoundStreamHeadTag() with the sizes the decoder accepts
NewSoundStreamHead(compression, latency_seek) ==
    [kind |-> "SoundStreamHead", tag_code |-> SOUND_STREAM_HEAD, tag_length |-> 0,
     playback_sound_rate |-> 3, playback_sound_size |-> 1, playback_sound_type |-> 1,
     stream_sound_compression |-> compression, stream_sound_rate |-> 2,
     stream_sound_size |-> 1, stream_sound_type |-> 0,
     stream_sound_sample_count |-> 1152, latency_seek |-> latency_seek]

\* The tags a body is built from: one of each registered class, opaque tags
\* in short and in extended form, and PlaceObject2 with each of its optional
\* attributes.
FileTagMenu ==
    << [kind |-> "SetBackgroundColor", tag_code |-> SET_BACKGROUND_COLOR,
        tag_length |-> 0, r |-> 255, g |-> 128, b |-> 0],
       NewSoundStreamHead(SND_MP3, 5),
       NewSoundStreamHead(SND_MP3, 0),
       NewSoundStreamHead(SND_ADPCM, 0),
       [kind |-> "SoundStreamBlock", tag_code |-> SOUND_STREAM_BLOCK, tag_length |-> 0,
        sound_data |-> <<7, 8>>],
       [kind |-> "VideoFrame", tag_code |-> VIDEO_FRAME, tag_length |-> 0,
        stream_id |-> 1, frame_num |-> 2, video_data |-> <<9>>],
       [kind |-> "Unknown", tag_code |-> 1, tag_length |-> 7, data |-> <<5, 6>>],
       [kind |-> "Unknown", tag_code |-> 2, tag_length |-> 0,
        data |-> Payload(MaxPayload, 0)],
       [NewPlaceObject2 EXCEPT !.depth = 1, !.move = 1],
       [NewPlaceObject2 EXCEPT !.depth = 2, !.character_id = <<7>>,
           !.matrix = <<NewMatrix(<<>>, <<>>, <<0, 0>>)>>],
       [NewPlaceObject2 EXCEPT !.depth = 3, !.character_id = <<7>>,
           !.matrix = <<NewMatrix(<<>>, <<>>, <<100, -40>>)>>, !.ratio = <<0>>,
           !.name = <<[kind |-> "String", value |-> <<97, 98>>]>>,
           !.clip_depth = <<4>>],
       [NewPlaceObject2 EXCEPT !.depth = 4,
           !.matrix = <<NewMatrix(<< <<IntNum(65536), IntNum(65536)>> >>, <<>>,
                                  <<0, 0>>)>>],
       [NewPlaceObject2 EXCEPT !.depth = 5,
           !.matrix = <<NewMatrix(<<>>, << <<IntNum(-3), IntNum(3)>> >>, <<1, 1>>)>>],
       [NewPlaceObject2 EXCEPT !.depth = 6,
           !.color_transform = <<[kind |-> "ColorTransformWithAlpha",
                                  mult_term |-> <<>>, add_term |-> <<>>]>>],
       [NewPlaceObject2 EXCEPT !.depth = 7,
           !.color_transform = <<[kind |-> "ColorTransformWithAlpha",
                                  mult_term |-> << <<256, 256, 256, 128>> >>,
                                  add_term |-> <<>>]>>],
       [NewPlaceObject2 EXCEPT !.depth = 8,
           !.color_transform = <<[kind |-> "ColorTransformWithAlpha",
                                  mult_term |-> << <<256, 0, -256, 128>> >>,
                                  add_term |-> << <<1, -2, 3, 0>> >>]>>] >>

\* the bodies: up to MaxTags tags of the menu, then the End tag
FileBodies ==
    { [i \in 1..(Len(ix) + 1) |-> IF i <= Len(ix) THEN FileTagMenu[ix[i]] ELSE EndTag] :
        ix \in UNION {[1..n -> 1..Len(FileTagMenu)] : n \in 0..MaxTags} }

\* the file_length a header holds before save: any stale value
StaleFileLengths == {0, 99}

FileInit ==
    /\ \E header \in FileHeaders, body \in FileBodies, stale \in StaleFileLengths :
          swf = [header |-> [header EXCEPT !.file_header.file_length = stale],
                 body |-> body]
    /\ saved = <<>> /\ loaded = <<>> /\ resaved = <<>>
    /\ fphase = "new" /\ ferr = ""
    /\ BitIdle /\ ReqIdle /\ TagIdle /\ IterIdle /\ RecIdle /\ VidIdle
    /\ ObjIdle

\* swf.save(file_name)
SaveFile ==
    /\ fphase = "new"
    /\ \E r \in {save(swf.header, swf.body)} :
          /\ swf' = [header |-> r.header, body |-> r.body]
          /\ saved' = r.bytes
          /\ fphase' = IF r.ok THEN "saved" ELSE "failed"
          /\ ferr' = r.err
    /\ UNCHANGED <<loaded, resaved, notFile>>

\* loaded = SwfFile(); loaded.load(file_name)
LoadFile ==
    /\ fphase = "saved"
    /\ \E r \in {load(saved)} :
          /\ loaded' = IF r.ok THEN <<[header |-> r.header, body |-> r.body]>> ELSE <<>>
          /\ fphase' = IF r.ok THEN "loaded" ELSE "failed"
          /\ ferr' = r.err
    /\ UNCHANGED <<swf, saved, resaved, notFile>>

\* loaded.save(other_file_name)
SaveLoaded ==
    /\ fphase = "loaded"
    /\ \E r \in {save(loaded[1].header, loaded[1].body)} :
          /\ loaded' = <<[header |-> r.header, body |-> r.body]>>
          /\ resaved' = r.bytes
          /\ fphase' = IF r.ok THEN "resaved" ELSE "failed"
          /\ ferr' = r.err
    /\ UNCHANGED <<swf, saved, notFile>>

FileNext == SaveFile \/ LoadFile \/ SaveLoaded

SpecFile == FileInit /\ [][FileNext]_vars

\* a Matrix of a tag of the body holds a scale or a rotate pair
HasScaleOrRotate(body) ==
    \E i \in 1..Len(body) :
        /\ body[i].kind = "PlaceObject2"
        /\ Len(body[i].matrix) > 0
        /\ Len(body[i].matrix[1].scale) + Len(body[i].matrix[1].rotate) > 0

\* C1: for every file whose body is non-empty, ends with an End tag and
\* holds tags of the registered classes or opaque tags, saving it, loading
\* the result and saving the loaded header and tags again succeeds at every
\* step and writes exactly the bytes of the first save.
C1_FileRoundTrip ==
    /\ fphase # "failed"
    /\ fphase = "resaved" => resaved = saved

\* The round trip of C1 does hold for the files none of whose matrices has a
\* scale or a rotate pair.
C1_RoundTripWithoutScaleOrRotate ==
    ~HasScaleOrRotate(swf.body) => C1_FileRoundTrip

\* The files of C1 do reach the second save, and it fails only with the
\* ValueError of required_bits on a float.
C1_FailsInSecondSave ==
    fphase = "failed" =>
        /\ ferr = "ValueError" /\ Len(loaded) = 1 /\ HasScaleOrRotate(swf.body)

\* the bytes of a saved file after its 8-byte file header, decompressed when
\* the signature says so
SavedData(bytes) ==
    IF bytes[1] = 67 THEN ZlibDecompress(SubSeq(bytes, 9, Len(bytes))).data
    ELSE SubSeq(bytes, 9, Len(bytes))

\* the 4-byte length field of a saved file
SavedLength(bytes) == UnpackI(SubSeq(bytes, 5, 8))

\* the frame header and the tags of a file, serialized
Serialized(f) == FrameHeaderSerialize(f.header.frame_header).bytes \o SerializeTags(f.body).bytes

\* C11: whatever file_length the caller left in the header, the length field
\* of every file that save writes is 8 plus the length of the uncompressed
\* serialization of the frame header and the tags, compressed or not, and
\* the header object holds that value afterwards.
C11_FileLengthDerived ==
    /\ fphase \in {"saved", "loaded"} =>
          /\ SavedData(saved) = Serialized(swf)
          /\ SavedLength(saved) = 8 + Len(Serialized(swf))
          /\ swf.header.file_header.file_length = SavedLength(saved)
    /\ fphase = "resaved" =>
          /\ SavedData(resaved) = Serialized(loaded[1])
          /\ SavedLength(resaved) = 8 + Len(Serialized(loaded[1]))
          /\ loaded[1].header.file_header.file_length = SavedLength(resaved)

\* a compressed file of two tags was saved: the length written is not the
\* length of the file
C11_Witness ==
    /\ fphase = "saved" /\ saved[1] = 67 /\ Len(swf.body) = 2
    /\ SavedLength(saved) # Len(saved)
    /\ SavedLength(saved) \notin StaleFileLengths

-----------------------------------------------------------------------------
(* SpecLoad: SwfFile().load_header on the bytes of some file, then         *)
(* iter_body when the header was read.                                     *)

\* a frame header for the files that are loaded
LoadFrameHeader ==
    [kind |-> "FrameHeader",
     frame_size |-> [kind |-> "Rect", x_min |-> 0, x_max |-> 11000,
                     y_min |-> 0, y_max |-> 8000],
     frame_rate |-> 12 * 256, frame_count |-> 1]

\* what follows the frame header: nothing, the End tag, or a tag of the menu
\* and the End tag
LoadBodies ==
    {<<>>, TagMenu[1]} \cup {TagMenu[i] \o TagMenu[1] : i \in 2..Len(TagMenu)}

\* what follows the file header: a frame header and a body as they are,
\* compressed, each also with its last byte missing, and bytes that are
\* neither
LoadRests ==
    UNION {{data, ZlibCompress(data), SubSeq(data, 1, Len(data) - 1),
            SubSeq(ZlibCompress(data), 1, Len(data) + 3)} :
              data \in {FrameHeaderSerialize(LoadFrameHeader).bytes \o b : b \in LoadBodies}}
        \cup {<<>>, <<1, 2, 3>>}

\* the first 3 bytes of a file: 'FWS', 'CWS', 'FLV'
LoadSignatures == {SignatureBytes("FWS"), SignatureBytes("CWS"), <<70, 76, 86>>}

\* the version byte of a file
LoadVersions == {0, 5, 6, 7}

LoadInit ==
    /\ \E sig \in LoadSignatures, version \in LoadVersions, rest \in LoadRests :
          saved = sig \o <<version>> \o PackI(8 + Len(rest)) \o rest
    /\ swf = NoFile /\ loaded = <<>> /\ resaved = <<>>
    /\ fphase = "saved" /\ ferr = ""
    /\ BitIdle /\ ReqIdle /\ TagIdle /\ IterIdle /\ RecIdle /\ VidIdle
    /\ ObjIdle

\* loaded = SwfFile(); loaded.load_header(file_name)
LoadHeader ==
    /\ fphase = "saved"
    /\ \E r \in {load_header(saved)} :
          /\ loaded' = IF r.ok THEN <<[header |-> r.header, body |-> <<>>]>> ELSE <<>>
          /\ file' = r.file
          /\ cur' = r.pos
          /\ istate' = IF r.ok THEN "running" ELSE istate
          /\ fphase' = IF r.ok THEN "loaded" ELSE "failed"
          /\ ferr' = r.err
    /\ UNCHANGED <<swf, saved, resaved, last_tag, yielded, ierr,
                   bitVars, reqVars, tagVars, recVars, vidVars, objVars>>

LoadNext == LoadHeader \/ IterNext

SpecLoad == LoadInit /\ [][LoadNext]_vars

\* the file begins with 'CWS' and a version byte below 6
CompressedBelow6(bytes) ==
    Len(bytes) >= 8 /\ SubSeq(bytes, 1, 3) = <<67, 87, 83>> /\ bytes[4] < 6

\* C12: load_header on a file whose signature is 'CWS' and whose version is
\* below 6 raises SwfException, with the file read no further than its 8-byte
\* header (nothing decompressed, no frame header parsed), and leaves the
\* SwfFile without a header.
C12_CompressedBelow6Rejected ==
    fphase # "saved" /\ CompressedBelow6(saved) =>
        /\ fphase = "failed" /\ ferr = "SwfException"
        /\ loaded = <<>>
        /\ file = saved /\ cur = 8
        /\ istate = "idle"

\* a compressed file of version 5 that would have loaded with version 6
C12_Witness ==
    /\ fphase = "failed" /\ CompressedBelow6(saved) /\ saved[4] = 5
    /\ ZlibDecompress(SubSeq(saved, 9, Len(saved))).ok
    /\ load_header(<<67, 87, 83, 6>> \o SubSeq(saved, 5, Len(saved))).ok

-----------------------------------------------------------------------------
(* SpecRead: a BitReader over the bytes of some file, read with any widths *)
(* through unsign_read, sign_read and read(length, True).                  *)

\* the files read: empty, the two of the unit tests, and one with high bits
ReadSources == {<<>>, <<27>>, <<40, 193>>, <<255, 128>>}

ReadInit ==
    /\ fio \in ReadSources
    /\ buffer = <<>> /\ backlog = <<>> /\ fpos = 0
    /\ wlog = <<>> /\ rlog = <<>> /\ bphase = "read"
    /\ ReqIdle /\ TagIdle /\ IterIdle /\ RecIdle /\ VidIdle /\ FileIdle
    /\ ObjIdle

\* what a call leaves in the reader and in the log of the reads
ReadDone(call, w, sign, res) ==
    /\ backlog' = res.backlog
    /\ fpos' = res.pos
    /\ rlog' = Append(rlog, [call |-> call, w |-> w, sign |-> sign, ok |-> res.ok,
                             v |-> res.v, err |-> res.err])
    /\ UNCHANGED <<buffer, fio, wlog, bphase, notBits>>

\* br.unsign_read(w)
ReadUnsigned ==
    /\ bphase = "read" /\ wlog = <<>> /\ Len(rlog) < MaxReads
    /\ \E w \in 0..MaxWidth :
          ReadDone("unsign_read", w, FALSE, unsign_read(fio, fpos, backlog, w))

\* br.sign_read(w)
ReadSigned ==
    /\ bphase = "read" /\ wlog = <<>> /\ Len(rlog) < MaxReads
    /\ \E w \in 0..MaxWidth :
          ReadDone("sign_read", w, TRUE, sign_read(fio, fpos, backlog, w))

\* br.read(w, True), as the record decoders could call it
ReadDirect ==
    /\ bphase = "read" /\ wlog = <<>> /\ Len(rlog) < MaxReads
    /\ \E w \in 1..MaxWidth :
          ReadDone("read", w, TRUE, BitRead(fio, fpos, backlog, w, TRUE))

ReadSpecNext == ReadUnsigned \/ ReadSigned \/ ReadDirect

SpecRead == ReadInit /\ [][ReadSpecNext]_vars

\* this step is a call of the reader, logged as the last entry of rlog'
ReadStep == Len(rlog') = Len(rlog) + 1

\* the entry of the call made in this step
ThisRead == rlog'[Len(rlog')]

\* the bits the reader can still deliver: its backlog and the rest of the file
BitsLeft == Len(backlog) + 8 * (Len(fio) - fpos)

RECURSIVE Replay(_, _, _, _)
\* the outcomes of the calls of reads, in order, on a reader with backlog bl
\* over src at pos
Replay(src, pos, bl, reads) ==
    IF Len(reads) = 0 THEN <<>>
    ELSE Bind([res \in {IF Head(reads).call = "sign_read"
                        THEN sign_read(src, pos, bl, Head(reads).w)
                        ELSE BitRead(src, pos, bl, Head(reads).w, Head(reads).sign)} |->
            <<[Head(reads) EXCEPT !.ok = res.ok, !.v = res.v, !.err = res.err]>>
                \o Replay(src, res.pos, res.backlog, Tail(reads))])

\* a sign_read of a width below 2
NarrowSigned(e) == e.call = "sign_read" /\ e.w < 2

\* the reads other than the narrow signed ones returned exactly what they
\* return on a fresh reader over the same file when those calls are not made
ReadsUnaffected ==
    Replay(fio, 0, <<>>, SelectSeq(rlog, LAMBDA e : ~NarrowSigned(e)))
        = SelectSeq(rlog, LAMBDA e : ~NarrowSigned(e))

\* C13: sign_read(w) with w in {0, 1} raises (ValueError) and leaves the
\* backlog and the position of the file as they were, so that the reads
\* around it return what they return without it.
C13_NarrowSignedRead ==
    /\ [][ReadStep /\ NarrowSigned(ThisRead) =>
            /\ ~ThisRead.ok /\ ThisRead.err = "ValueError"
            /\ backlog' = backlog /\ fpos' = fpos /\ fio' = fio]_vars
    /\ [](bphase = "read" /\ wlog = <<>> => ReadsUnaffected)

\* sign_read(1) failed between a read that left bits in the backlog and a
\* read that returned a value from them
C13_Witness ==
    /\ bphase = "read" /\ wlog = <<>> /\ Len(rlog) = 3
    /\ rlog[1].ok /\ rlog[1].w = 3
    /\ NarrowSigned(rlog[2]) /\ rlog[2].w = 1 /\ ~rlog[2].ok
    /\ rlog[3].ok /\ rlog[3].sign /\ rlog[3].w = 2 /\ rlog[3].v = -1
    /\ Len(backlog) = 3 /\ fpos = 1

-----------------------------------------------------------------------------
(* SpecWrite: a BitWriter that is written and flushed in any order; wlog   *)
(* holds the calls, a write as [call, w, v, out] with out = <<>>, a flush  *)
(* with the bytes it wrote to the file as out.                             *)

\* the widths written: none, one bit, within a byte, the widest
WriteWidths == {0, 1, 3, MaxWidth}

\* the numbers written at width w: unsigned, and two's-complement for w >= 2
WriteVals(w) == UnsignedVals(w) \cup (IF w >= 2 THEN SignedVals(w) ELSE {})

WriteInit ==
    /\ buffer = <<>> /\ fio = <<>> /\ backlog = <<>> /\ fpos = 0
    /\ wlog = <<>> /\ rlog = <<>> /\ bphase = "calls"
    /\ ReqIdle /\ TagIdle /\ IterIdle /\ RecIdle /\ VidIdle /\ FileIdle
    /\ ObjIdle

\* the write calls logged in wlog
WritesOf(calls) == SelectSeq(calls, LAMBDA e : e.call = "write")

\* bw.write(w, v)
WriteCall ==
    /\ bphase = "calls" /\ Len(wlog) < MaxCalls /\ Len(WritesOf(wlog)) < MaxWrites
    /\ \E w \in WriteWidths : \E v \in WriteVals(w) :
          /\ buffer' = Append(buffer, BitWrite(w, v))
          /\ wlog' = Append(wlog, [call |-> "write", w |-> w, v |-> v, out |-> <<>>])
    /\ UNCHANGED <<fio, backlog, fpos, rlog, bphase, notBits>>

\* bw.flush()
FlushCall ==
    /\ bphase = "calls" /\ Len(wlog) < MaxCalls
    /\ \E out \in {IF buffer = <<>> THEN <<>> ELSE FlushBytes(buffer)} :
          /\ fio' = fio \o out
          /\ wlog' = Append(wlog, [call |-> "flush", w |-> 0, v |-> 0, out |-> out])
    /\ buffer' = <<>>
    /\ UNCHANGED <<backlog, fpos, rlog, bphase, notBits>>

WriteSpecNext == WriteCall \/ FlushCall

SpecWrite == WriteInit /\ [][WriteSpecNext]_vars

\* The bits of write(w, v): the w binary digits of v modulo 2^w, most
\* significant first; a write of width 0 appends one '0' (see C2).
WrittenBits(e) ==
    IF e.w = 0 THEN <<0>>
    ELSE [j \in 1..e.w |-> ((e.v % Pow2(e.w)) \div Pow2(e.w - j)) % 2]

RECURSIVE BitsOfWrites(_)
BitsOfWrites(calls) ==
    IF Len(calls) = 0 THEN <<>> ELSE WrittenBits(Head(calls)) \o BitsOfWrites(Tail(calls))

\* the index of the last flush before call i, 0 when there is none
FlushBefore(i) ==
    IF \E k \in 1..(i - 1) : wlog[k].call = "flush"
    THEN CHOOSE k \in 1..(i - 1) :
            wlog[k].call = "flush" /\ \A m \in (k + 1)..(i - 1) : wlog[m].call = "write"
    ELSE 0

\* the bits written between the flush before call i and call i
PendingBits(i) == BitsOfWrites(SubSeq(wlog, FlushBefore(i) + 1, i - 1))

\* bit k (from 1) of a byte string, most significant bit of each byte first
BitOfBytes(bytes, k) == (bytes[((k - 1) \div 8) + 1] \div Pow2(7 - ((k - 1) % 8))) % 2

-----------------------------------------------------------------------------
(* SpecGrid: a ScreenVideoPacket given the sizes of an image and of its    *)
(* blocks, then prepare_blocks.                                            *)

\* the sides of the images: one pixel, about one block, a side no block side
\* divides, and about the largest block
GridSides == {1, 16, 17, 47, 256, 257}

\* the block sides the 4-bit code of the frame header can express
GridBlockSides == {16 * k : k \in 1..16}

GridInit ==
    /\ \E iw \in GridSides, ih \in GridSides, bw \in GridBlockSides,
          bh \in GridBlockSides :
          sv_packet = <<[NewPacket EXCEPT !.image_width = iw, !.image_height = ih,
                                          !.block_width = bw, !.block_height = bh]>>
    /\ images = <<>> /\ previous_frame = <<>> /\ video_data = <<>> /\ svp = <<>>
    /\ last_img = <<>> /\ shown = <<>> /\ vphase = "sized" /\ verr = ""
    /\ BitIdle /\ ReqIdle /\ TagIdle /\ IterIdle /\ RecIdle /\ FileIdle
    /\ ObjIdle

\* packet.prepare_blocks()
PrepareBlocks ==
    /\ vphase = "sized"
    /\ sv_packet' = <<prepare_blocks(sv_packet[1])>>
    /\ vphase' = "prepared"
    /\ UNCHANGED <<images, previous_frame, video_data, svp, last_img, shown, verr, notVid>>

GridNext == PrepareBlocks

SpecGrid == GridInit /\ [][GridNext]_vars

\* ceil(a / b) for a >= 1, b >= 1
CeilDiv(a, b) == CHOOSE q \in 1..a : (q - 1) * b < a /\ a <= q * b

RECURSIVE RowWidths(_, _, _)
\* the widths of the blocks of a grid row, from column col on, added up
RowWidths(p, row, col) ==
    IF col >= p.hoz_blk_cnt THEN 0
    ELSE get_block_dimension(p, row * p.hoz_blk_cnt + col)[1] + RowWidths(p, row, col + 1)

RECURSIVE ColHeights(_, _, _)
\* the heights of the blocks of a grid column, from row row on, added up
ColHeights(p, row, col) ==
    IF row >= p.ver_blk_cnt THEN 0
    ELSE get_block_dimension(p, row * p.hoz_blk_cnt + col)[2] + ColHeights(p, row + 1, col)

\* the grid of packet p is the one C16 describes
GridGeometry(p) ==
    /\ p.hoz_blk_cnt = CeilDiv(p.image_width, p.block_width)
    /\ p.ver_blk_cnt = CeilDiv(p.image_height, p.block_height)
    /\ p.block_count = p.hoz_blk_cnt * p.ver_blk_cnt
    /\ Len(p.image_blocks) = p.block_count
    /\ \A n \in 0..(p.block_count - 1) :
          /\ get_block_dimension(p, n)[1] \in 1..p.block_width
          /\ get_block_dimension(p, n)[2] \in 1..p.block_height
          /\ n % p.hoz_blk_cnt < p.hoz_blk_cnt - 1 =>
                get_block_dimension(p, n)[1] = p.block_width
          /\ n \div p.hoz_blk_cnt < p.ver_blk_cnt - 1 =>
                get_block_dimension(p, n)[2] = p.block_height
    /\ \A row \in 0..(p.ver_blk_cnt - 1) : RowWidths(p, row, 0) = p.image_width
    /\ \A col \in 0..(p.hoz_blk_cnt - 1) : ColHeights(p, 0, col) = p.image_height

\* C16: for image sides >= 1 and block sides that are multiples of 16 in
\* 16..256, prepare_blocks gives ceil(width / block width) columns and
\* ceil(height / block height) rows, and get_block_dimension gives every
\* block a width in 1..block width and a height in 1..block height, full
\* size except in the last column and the last row, the widths of each row
\* adding up to the image width and the heights of each column to the image
\* height.
C16_BlockGridGeometry == vphase = "prepared" => GridGeometry(sv_packet[1])

\* an image of 257 x 47 in blocks of 32 x 16: 9 columns, the last one pixel
\* wide, and 3 rows, the last 15 pixels high
C16_Witness ==
    /\ vphase = "prepared"
    /\ sv_packet[1].image_width = 257 /\ sv_packet[1].image_height = 47
    /\ sv_packet[1].block_width = 32 /\ sv_packet[1].block_height = 16
    /\ sv_packet[1].hoz_blk_cnt = 9 /\ sv_packet[1].ver_blk_cnt = 3
    /\ get_block_dimension(sv_packet[1], 26) = <<1, 15>>
    /\ get_block_dimension(sv_packet[1], 0) = <<32, 16>>

-----------------------------------------------------------------------------
(* The kinds of the errors, on SpecVideo *)

\* the class ScreenVideoPacket.deserialize raises on codec id 5, and the class
\* FileHeader.deserialize raises on the signature 'FLV'
FormatViolationKinds ==
    { ScreenVideoPacketDeserialize(<<KEY_FRAME * 16 + 5, 0, 1, 0, 1>>, 0).err,
      FileHeaderDeserialize(<<70, 76, 86, 1, 0, 0, 0, 0>>, 0).err }

\* from_image was given an image of another size than the previous frame's
MismatchedFrame ==
    /\ Len(images) = 2 /\ images[2].size # images[1].size /\ Len(sv_packet) = 1
    /\ <<sv_packet[1].image_width, sv_packet[1].image_height>> = images[1].size

\* C17: from_image against a previous frame of another size than the image
\* fails, with an exception of a class that is not the class raised for a
\* wrong codec id or for a bad file signature.
C17_StateViolationKind ==
    MismatchedFrame =>
        /\ vphase = "failed" /\ verr # ""
        /\ verr \notin FormatViolationKinds

-----------------------------------------------------------------------------
(* Chains of inter frames, on SpecVideo *)

\* the stream is one C18 speaks of: RGB images of one size, the first encoded
\* as a key frame with block sizes from_image accepts
EquallySizedChain ==
    /\ Len(images) >= 1 /\ Len(sv_packet) = 1
    /\ \A k \in 1..Len(images) :
          images[k].mode = "RGB" /\ images[k].size = images[1].size

\* C18: in a stream of equally sized images, the first encoded as a key
\* frame and each later one as an inter frame against the packet before it,
\* every from_image succeeds, and the canvas the decoded packets are painted
\* on is, after packet k, the image k.
C18_InterChainsReconstruct ==
    EquallySizedChain =>
        /\ vphase # "failed"
        /\ \A k \in 1..Len(shown) : shown[k] = images[k]

\* What does hold: with square blocks a key frame and one inter frame against
\* it are encoded and reconstruct their images.
C18_KeyAndOneInterFrame ==
    EquallySizedChain /\ Len(images) <= 2
        /\ sv_packet[1].block_width = sv_packet[1].block_height =>
            /\ vphase # "failed"
            /\ \A k \in 1..Len(shown) : shown[k] = images[k]

\* A from_image against an inter frame raises TypeError exactly when that
\* inter frame has an absent block.
C18_InterOnInterTypeError ==
    [][Len(images') = 3 /\ Len(images) = 2 /\ EquallySizedChain' =>
          (vphase' = "failed" /\ verr' = "TypeError")
              <=> (\E n \in 1..sv_packet[1].block_count :
                      sv_packet[1].image_blocks[n] = <<>>)]_vars

-----------------------------------------------------------------------------
(* Where the blocks lie, on SpecVideo *)

\* the rectangle C19 gives block block_nr: columns col * block_width on,
\* lines row * block_height on counted from the bottom of the image, its
\* pixels from the bottom line up, each as <<b, g, r>>
BlockRectangle(p, img, block_nr) ==
    [j \in 1..(get_block_dimension(p, block_nr)[1]
                  * get_block_dimension(p, block_nr)[2]) |->
        from_rgb_tuple(GetPixel(img,
            (block_nr % p.hoz_blk_cnt) * p.block_width
                + ((j - 1) % get_block_dimension(p, block_nr)[1]),
            img.size[2] - 1 - ((block_nr \div p.hoz_blk_cnt) * p.block_height
                + ((j - 1) \div get_block_dimension(p, block_nr)[1]))))]

\* a key frame has been built from the first image
KeyFrameBuilt == Len(images) = 1 /\ Len(sv_packet) = 1

\* C19: every block of a key frame built by from_image holds the pixels of
\* the rectangle to_image paints it onto (columns col * block_width on, lines
\* row * block_height on from the bottom), whatever the image size and the
\* block width and height, so that the image painted from the key frame is
\* the source image.
C19_BlocksWhereDecoderPaints ==
    KeyFrameBuilt =>
        /\ \A n \in 1..sv_packet[1].block_count :
              sv_packet[1].image_blocks[n][1].pixels
                  = BlockRectangle(sv_packet[1], images[1], n - 1)
        /\ Len(shown) = 1 => shown[1] = images[1]

\* What does hold: the claim for block_width = block_height and for images
\* of a single row of blocks.
C19_SquareOrSingleRow ==
    KeyFrameBuilt /\ (sv_packet[1].block_width = sv_packet[1].block_height
                        \/ sv_packet[1].ver_blk_cnt = 1) =>
        /\ \A n \in 1..sv_packet[1].block_count :
              sv_packet[1].image_blocks[n][1].pixels
                  = BlockRectangle(sv_packet[1], images[1], n - 1)
        /\ Len(shown) = 1 => shown[1] = images[1]

-----------------------------------------------------------------------------
(* The bytes one step of iter_body consumes, on SpecIter *)

\* the size of the tag header at pos of the file: 2 bytes, or 6 in the
\* extended form
HeaderSize(pos) == TagHeaderRead(file, pos).pos - pos

\* C20: whenever iter_body yields a tag the cursor has advanced by the size
\* of the tag's header plus the length the header declares, for the
\* registered tag codes as for the opaque fallback.
C20_StepConsumesOneFramedTag ==
    \A i \in 1..Len(yielded) :
        yielded[i].to - yielded[i].from
            = HeaderSize(yielded[i].from) + yielded[i].tag.tag_length

\* What does hold: the claim for the tags decoded by the opaque fallback.
C20_OpaqueConsumesDeclaredLength ==
    \A i \in 1..Len(yielded) :
        yielded[i].tag.kind = "Unknown" =>
            yielded[i].to - yielded[i].from
                = HeaderSize(yielded[i].from) + yielded[i].tag.tag_length

-----------------------------------------------------------------------------
(* SpecMatrix: a Matrix is deserialized from its encoding with minimal     *)
(* widths, and the object obtained is serialized.                          *)

\* the 16.16 numbers of a scale or rotate pair as they are in the stream:
\* no pair, zeros, 1.0, small numbers of both signs, halves
ScalePairs == {<<>>, <<0, 0>>, <<65536, 65536>>, <<1, -1>>, <<-32768, 98304>>}
RotatePairs == {<<>>, <<0, 0>>, <<-65536, 65536>>, <<3, -4>>}

\* the translate pairs; <<0, 0>> is written with width 0
TranslatePairs == {<<0, 0>>, <<1, -1>>, <<20, -300>>, <<-2, -2>>, <<100, 0>>}

\* a pair of the stream as the attribute of a Matrix that holds its integers
IntPair(v) == IF Len(v) = 0 THEN <<>> ELSE << <<IntNum(v[1]), IntNum(v[2])>> >>

\* the encoding of a Matrix with these pairs: each present pair after its
\* flag and its 5-bit width, the width the smallest that holds both numbers
\* as signed values, translate with width 0 for <<0, 0>>, padded to a byte
MatrixWire(scale, rotate, translate) ==
    MatrixSerialize(NewMatrix(IntPair(scale), IntPair(rotate), translate)).bytes

MatrixInit ==
    /\ \E scale \in ScalePairs, rotate \in RotatePairs, translate \in TranslatePairs :
          wire = MatrixWire(scale, rotate, translate)
    /\ robj = <<>> /\ sers = <<>> /\ ophase = "new"
    /\ BitIdle /\ ReqIdle /\ TagIdle /\ IterIdle /\ RecIdle /\ VidIdle /\ FileIdle

\* m = Matrix().deserialize(f) on a file holding wire
MatrixLoad ==
    /\ ophase = "new"
    /\ \E r \in {MatrixDeserialize(wire, 0)} :
          /\ robj' = IF r.ok THEN <<r.obj>> ELSE <<>>
          /\ ophase' = IF r.ok THEN "decoded" ELSE "failed"
    /\ UNCHANGED <<wire, sers, notObj>>

\* m.serialize(out) on a new file
MatrixSave ==
    /\ ophase = "decoded"
    /\ sers' = Append(sers, MatrixSerialize(robj[1]))
    /\ ophase' = "saved"
    /\ UNCHANGED <<robj, wire, notObj>>

MatrixNext == MatrixLoad \/ MatrixSave

SpecMatrix == MatrixInit /\ [][MatrixNext]_vars

\* C21: for every Matrix encoding with minimal widths, with or without a
\* scale pair and a rotate pair and with any translate pair (width 0
\* included), deserialize succeeds, and serializing the Matrix it returns
\* succeeds and writes the bytes that were read.
C21_MatrixRoundTrip ==
    /\ ophase # "failed"
    /\ ophase = "saved" => sers[1].ok /\ sers[1].bytes = wire

\* What does hold: the round trip of a Matrix that has neither a scale nor a
\* rotate pair, translate of width 0 included; with either pair, serialize
\* raises ValueError, for the pair is held as floats.
C21_TranslateOnlyRoundTrip ==
    /\ ophase # "failed"
    /\ ophase = "saved" =>
          IF Len(robj[1].scale) + Len(robj[1].rotate) = 0
          THEN sers[1].ok /\ sers[1].bytes = wire
          ELSE ~sers[1].ok /\ sers[1].err = "ValueError"

-----------------------------------------------------------------------------
(* What a BitReader fetches and delivers, on SpecRead *)

\* every call of the reader so far returned a value
AllReadsOk == \A i \in 1..Len(rlog) : rlog[i].ok

RECURSIVE WidthsRead(_)
\* the bits asked for by the calls of a log, in all
WidthsRead(reads) ==
    IF Len(reads) = 0 THEN 0 ELSE Head(reads).w + WidthsRead(Tail(reads))

\* the w bits a read returned as the value v, most significant first: the
\* digits of v, in two's complement for a negative v
DeliveredBits(e) == [j \in 1..e.w |-> ((e.v % Pow2(e.w)) \div Pow2(e.w - j)) % 2]

RECURSIVE BitsOfReads(_)
BitsOfReads(reads) ==
    IF Len(reads) = 0 THEN <<>> ELSE DeliveredBits(Head(reads)) \o BitsOfReads(Tail(reads))

\* C22: after any sequence of successful reads of one BitReader the backlog
\* holds 0 to 7 bits, the bytes taken from the file are ceil(bits read / 8),
\* and the bits delivered are, in order and each once, the first bits of
\* those bytes, the most significant bit of each byte first.
C22_NoRefetchNoOverfetch ==
    bphase = "read" /\ wlog = <<>> /\ AllReadsOk =>
        /\ Len(backlog) \in 0..7
        /\ fpos = (WidthsRead(rlog) + 7) \div 8
        /\ fpos <= Len(fio)
        /\ Len(backlog) = 8 * fpos - WidthsRead(rlog)
        /\ \A k \in 1..WidthsRead(rlog) : BitsOfReads(rlog)[k] = BitOfBytes(fio, k)
        /\ \A k \in 1..Len(backlog) :
              backlog[k] = BitOfBytes(fio, WidthsRead(rlog) + k)

\* three reads of 3, 5 and 5 bits of the file 0x28 0xC1 took its two bytes,
\* the second when the backlog was empty, and returned 1, 8 and -8; three
\* bits are left
C22_Witness ==
    /\ bphase = "read" /\ wlog = <<>> /\ AllReadsOk /\ fio = <<40, 193>>
    /\ Len(rlog) = 3
    /\ rlog[1].w = 3 /\ rlog[1].v = 1
    /\ rlog[2].w = 5 /\ rlog[2].v = 8
    /\ rlog[3].w = 5 /\ rlog[3].sign /\ rlog[3].v = -8
    /\ fpos = 2 /\ backlog = <<0, 0, 1>>

-----------------------------------------------------------------------------
(* SpecColor: a ColorTransform or a ColorTransformWithAlpha whose terms    *)
(* have been set is serialized again and again.                            *)

\* the terms of red, green, blue and alpha; None is <<>>
ColorTerms ==
    {<<0, 0, 0, 0>>, <<256, 256, 256, 256>>, <<-1, 5, 100, -128>>, <<1, 2, 3, 4>>}

\* a term list of a color transform of the given kind: three entries without
\* alpha, four with it
TermsOf(kind, t) ==
    IF kind = "ColorTransform" THEN <<SubSeq(t, 1, 3)>> ELSE <<t>>

ColorKinds == {"ColorTransform", "ColorTransformWithAlpha"}

ColorInit ==
    /\ \E kind \in ColorKinds :
       \E add \in {<<>>} \cup {TermsOf(kind, t) : t \in ColorTerms},
          mult \in {<<>>} \cup {TermsOf(kind, t) : t \in ColorTerms} :
          robj = <<[kind |-> kind, add_term |-> add, mult_term |-> mult]>>
    /\ wire = <<>> /\ sers = <<>> /\ ophase = "made"
    /\ BitIdle /\ ReqIdle /\ TagIdle /\ IterIdle /\ RecIdle /\ VidIdle /\ FileIdle

\* what a serialize leaves: the object, and the bytes in the log
ColorSerialized(r) ==
    /\ robj' = <<r.obj>>
    /\ sers' = Append(sers, [ok |-> r.ok, err |-> r.err, bytes |-> r.bytes])
    /\ UNCHANGED <<wire, ophase, notObj>>

\* ct.serialize(f) of a ColorTransform
SerializeColorTransform ==
    /\ ophase = "made" /\ Len(sers) < MaxSaves
    /\ robj[1].kind = "ColorTransform"
    /\ ColorSerialized(ColorTransformSerialize(robj[1]))

\* ct.serialize(f) of a ColorTransformWithAlpha
SerializeColorTransformWithAlpha ==
    /\ ophase = "made" /\ Len(sers) < MaxSaves
    /\ robj[1].kind = "ColorTransformWithAlpha"
    /\ ColorSerialized(ColorTransformWithAlphaSerialize(robj[1]))

ColorNext == SerializeColorTransform \/ SerializeColorTransformWithAlpha

SpecColor == ColorInit /\ [][ColorNext]_vars

\* this step is a serialize of the color transform
ColorSerializeStep == Len(sers') = Len(sers) + 1

\* C23: a serialize of a ColorTransform or of a ColorTransformWithAlpha
\* leaves add_term and mult_term as they were before the call, whichever of
\* them are present and however many serialize calls came before.
C23_SerializeLeavesTerms ==
    [][ColorSerializeStep =>
          /\ robj'[1].add_term = robj[1].add_term
          /\ robj'[1].mult_term = robj[1].mult_term]_vars

\* What does hold: mult_term is never changed, add_term is changed only when
\* both terms are present, and then mult_term is appended to it; the bytes
\* written are those of the first call all the same.
C23_AddTermGrowsByMultTerm ==
    /\ [][ColorSerializeStep =>
            /\ robj'[1].mult_term = robj[1].mult_term
            /\ robj'[1].add_term =
                  IF Len(robj[1].add_term) > 0 /\ Len(robj[1].mult_term) > 0
                  THEN <<robj[1].add_term[1] \o robj[1].mult_term[1]>>
                  ELSE robj[1].add_term]_vars
    /\ [](ophase = "made" => \A i \in 1..Len(sers) : sers[i] = sers[1])

-----------------------------------------------------------------------------
(* SpecWide: a BitWriter written with numbers that fit their width and     *)
(* with numbers that do not, and flushed.                                  *)

\* the numbers written at width w: some that fit, and beyond each end of the
\* range: 2^w and 34 (required_bits() of no number, written as a 4-bit or
\* 5-bit width), -2^w - 1 and -2^(w+1)
WideVals(w) ==
    {0, 1, -1, Pow2(w) - 1, -Pow2(w), Pow2(w), 34, -Pow2(w) - 1, -2 * Pow2(w)}

WideInit ==
    /\ buffer = <<>> /\ fio = <<>> /\ backlog = <<>> /\ fpos = 0
    /\ wlog = <<>> /\ rlog = <<>> /\ bphase = "wide"
    /\ ReqIdle /\ TagIdle /\ IterIdle /\ RecIdle /\ VidIdle /\ FileIdle
    /\ ObjIdle

\* bw.write(w, v) with w >= 1
WideWrite ==
    /\ bphase = "wide" /\ Len(wlog) < MaxCalls /\ Len(WritesOf(wlog)) < MaxWrites
    /\ \E w \in 1..MaxWidth : \E v \in WideVals(w) :
          /\ buffer' = Append(buffer, BitWrite(w, v))
          /\ wlog' = Append(wlog, [call |-> "write", w |-> w, v |-> v, out |-> <<>>])
    /\ UNCHANGED <<fio, backlog, fpos, rlog, bphase, notBits>>

\* bw.flush(): the buffer is emptied first; int(chunk, 2) of a chunk with a
\* '-' in it raises ValueError, or gives a negative number and chr raises
\* it, before anything is written to the file
WideFlush ==
    /\ bphase = "wide" /\ Len(wlog) < MaxCalls
    /\ \E out \in {IF buffer = <<>> \/ \E k \in 1..Len(Flatten(buffer)) :
                                          Flatten(buffer)[k] = Minus
                   THEN <<>> ELSE FlushBytes(buffer)} :
          /\ fio' = fio \o out
          /\ wlog' = Append(wlog, [call |-> "flush", w |-> 0, v |-> 0, out |-> out])
    /\ buffer' = <<>>
    /\ UNCHANGED <<backlog, fpos, rlog, bphase, notBits>>

WideNext == WideWrite \/ WideFlush

SpecWide == WideInit /\ [][WideNext]_vars

RECURSIVE WidthsWritten(_)
\* the widths of the writes of a log, in all
WidthsWritten(calls) ==
    IF Len(calls) = 0 THEN 0 ELSE Head(calls).w + WidthsWritten(Tail(calls))

\* the number fits the width: write formats it, or 2^w plus it, in w digits
FitsWidth(e) == e.v >= -Pow2(e.w) /\ e.v < Pow2(e.w)

\* C24: every write(bits, number) with bits >= 1 appends exactly `bits`
\* bits, whatever the number, so that the buffer holds as many bits as the
\* widths written since the last flush add up to.
C24_WriteAppendsWidth ==
    bphase = "wide" =>
        /\ \A k \in 1..Len(Flatten(buffer)) : Flatten(buffer)[k] \in {0, 1}
        /\ Len(Flatten(buffer))
              = WidthsWritten(SubSeq(wlog, FlushBefore(Len(wlog) + 1) + 1, Len(wlog)))

\* What does hold: the claim when every number written since the last flush
\* fits its width.
C24_FittingWriteAppendsWidth ==
    bphase = "wide"
        /\ (\A i \in (FlushBefore(Len(wlog) + 1) + 1)..Len(wlog) : FitsWidth(wlog[i])) =>
        /\ \A k \in 1..Len(Flatten(buffer)) : Flatten(buffer)[k] \in {0, 1}
        /\ Len(Flatten(buffer))
              = WidthsWritten(SubSeq(wlog, FlushBefore(Len(wlog) + 1) + 1, Len(wlog)))

====
